---- MODULE Spec2Model ----
(***************************************************************************)
(* Godot Peek MCP: the Editor Server's stream transport (SocketServer,     *)
(* extension/src/socket_server.cpp), its socket-file lifecycle, and the    *)
(* Adapter's request/response correlator (internal/godot/client.go), the   *)
(* scene launches with their auto-stop timers, the Output panel's cursor   *)
(* and the remote inspection handlers, the request router with the         *)
(* breakpoint cache, the launch overrides file and the Adapter's startup.  *)
(*                                                                         *)
(* The specifications share the module's variables:                        *)
(*   SpecLifecycle  editor processes starting and stopping a SocketServer  *)
(*                  on shared socket paths, one system call per step;      *)
(*   SpecTransport  one started SocketServer polled once per frame while   *)
(*                  adapters connect, send bytes and disconnect;           *)
(*   SpecAdapter    one Adapter: tool-handler goroutines in sendRequest,   *)
(*                  the read loop, and the frames the server sends back;   *)
(*   SpecScene      the editor playing scenes: run_* and stop_scene in the *)
(*                  C++ extension and in the GDScript addon, the auto-stop *)
(*                  timers and the startup error check;                    *)
(*   SpecOutput     get_output against a panel that grows and is cleared;  *)
(*   SpecInspect    get_remote_scene_tree / get_remote_node_properties and *)
(*                  the Adapter's retry on pending;                        *)
(*   SpecFraming    SpecTransport with adapters that write whole request   *)
(*                  lines;                                                 *)
(*   SpecRouter     MessageHandler::handle on one request per step, the    *)
(*                  breakpoint cache and the editor's breakpoints;         *)
(*   SpecOverrides  the overrides file between the Adapter's run tools and *)
(*                  the Game Helper of each game that starts;              *)
(*   SpecStartup    both peers deriving the socket path, and the Adapter's *)
(*                  connectWithRetry;                                      *)
(*   SpecBurst      a burst of adapters connecting and writing one request *)
(*                  each between two polls;                                *)
(*   SpecCapture    get_screenshot of the editor and of the running game;  *)
(*   SpecFinder     EditorControlFinder's cached controls while the editor *)
(*                  builds and frees them;                                 *)
(*   SpecGrace      SpecScene's launches with a timeout equal to the       *)
(*                  startup check's delay.                                 *)
(***************************************************************************)
EXTENDS Integers, Sequences, FiniteSets, TLC

(***************************************************************************)
(* Bounds of the model.                                                    *)
(***************************************************************************)
\* kernel sockets the editor processes may create in one run (caps start calls)
MaxSock == 2
\* frames the server sends to the Adapter in one run
MaxFrames == 2
\* frames in the Adapter's socket buffer that the reader has not scanned yet
MaxQueued == 1
\* run_* requests handled in one run
MaxLaunch == 2
\* frames the editor runs in one run
MaxTime == 5
\* requests that arrive between two frames
MaxInbox == 2
\* length of one frame, in milliseconds
FrameMs == 500
\* characters the Output panel holds at most
MaxPanel == 3
\* remote inspection tool calls in one run
MaxTools == 2
\* request frames one adapter writes in one run
MaxLines == 2
\* code points in a project directory name
MaxName == 3
\* objects the editor creates for its panels
MaxObjects == 4
\* slowest answer of the game's screenshot listener, in polling intervals
MaxAnswer == 21

(***************************************************************************)
(* Program constants.                                                      *)
(***************************************************************************)
\* int server_fd = -1: "no descriptor"
NoFd == -1
\* the startup grace window: time.Sleep(1500 * time.Millisecond), check_time + 1500
GraceMs == 1500
\* JSON-RPC error codes of the router
ParseError == -32700
InvalidRequest == -32600
MethodNotFound == -32601
InvalidParams == -32602
\* connectWithRetry(ctx, client, 3)
MaxRetries == 3
\* for (int attempt = 0; attempt < 20; attempt++)
CaptureAttempts == 20
\* OS::get_singleton()->delay_msec(50)
CaptureDelayMs == 50

\* editor processes, each holding one SocketServer instance
Instances == {"ed1", "ed2"}
\* socket paths the processes may be started on
Paths == {"/tmp/a.sock", "/tmp/b.sock"}
\* socket_path.clear(): the empty path
NoPath == ""
Socks == 1..MaxSock
\* adapter connections; a connection's descriptor on the server is its id
Conns == {1, 2}

VARIABLES
    \* ---- SocketServer fields, one per editor process
    server_fd,      \* listening descriptor (a kernel socket id) or NoFd
    socket_path,    \* path given to the last start(), NoPath after stop()
    owns_socket,    \* "we created the socket file"
    \* ---- position of each process inside start()/stop()
    spc,
    startOutcome,   \* which return of start() the last call took
    \* ---- the operating system
    fs,             \* what is at each path: nothing, a stale file, a bound socket
    sockState,      \* kernel socket: unused, open, bound, listening, closed
    sockAddr,       \* path a socket was bound to
    sockCreator,    \* process whose start() created the socket
    nextSock,       \* next unused kernel socket id
    \* ---- SocketServer::clients, one list per editor process
    clients,        \* sequence of [fd, read_buffer]
    \* ---- the adapters' stream connections, as the kernel holds them
    connPhase,      \* none, backlog (connected, not yet accepted), accepted, closed
    peerOpen,       \* the adapter's end of the connection is open
    backlog,        \* connections waiting in the listener's accept queue
    toServer,       \* bytes an adapter has written that the server has not read
    toClient,       \* bytes the server has written to the connection
    sent,           \* history: every byte the adapter has written
    lastRead,       \* history: requests handed to the router from each connection by the latest poll
    handed,         \* history: the lines read from the connection and handed to the router
    \* ---- the Adapter: godot.Client and the package's id counter
    requestID,      \* var requestID atomic.Int64
    connected,      \* Client.connected
    connOpen,       \* Client.conn is open (set by Connect, cleared by Close)
    pending,        \* Client.pending: request id -> response channel (the call that made it)
    outputBuffer,   \* Client.outputBuffer
    readLoop,       \* position of the readLoop goroutine
    dispatch,       \* the channel and response handleMessage is about to send
    \* ---- the sendRequest calls, one goroutine each
    pc,             \* position of each call
    reqId,          \* id the call got from nextID()
    chanBuf,        \* the call's respCh (capacity 1)
    result,         \* what the call returned
    ctxDone,        \* the caller's context has been cancelled
    \* ---- the Adapter's socket
    fdmu,           \* holder of the descriptor's write lock (net.Conn.Write)
    wire,           \* chunks written to the socket, in order
    incoming,       \* frames the server has sent that the reader has not scanned
    peerEOF,        \* the server has closed the connection
    framesSent,     \* history: number of frames the server has sent
    issued,         \* history: the ids nextID() has returned, in order
    deliveredLog,   \* history: the ids of the frames handed to a waiter
    \* ---- the editor and the scene it plays
    impl,           \* which server is installed: "extension" (C++) or "addon" (GDScript)
    now,            \* time of the current frame, in ms
    is_playing,     \* EditorInterface::is_playing_scene()
    paused,         \* the debugger session is breaked
    debugError,     \* the debugger's stack trace panel shows an error
    inbox,          \* requests that have arrived and wait for the next frame
    \* ---- GodotPeekPlugin (C++)
    auto_stop_active,
    auto_stop_timeout,
    \* ---- mcp_server.gd (GDScript)
    mcp_launch_id,  \* _mcp_launch_id
    was_playing,    \* _was_playing
    timers,         \* SceneTreeTimers created by _schedule_auto_stop, with their captured id
    pending_run,    \* _pending_run
    \* ---- the Adapter's run tool call (RunMainScene and checkStartupErrors)
    rc,
    \* ---- history of the scene
    launchSeq,      \* number of run_* requests handled
    lastTimeout,    \* timeout_seconds of the latest launch
    replaced,       \* history: origin of the scene that was playing when the
                    \* latest run request was handled, -1 if none was
    launchTime,     \* when the latest launch was handled
    playOrigin,     \* launch that started the playing scene, 0 if started by hand
    armedFor,       \* launch whose timeout the C++ timer was armed with
    earlyStop,      \* the launch's scene was stopped manually inside the grace window
    stopRequested,  \* a stop_scene request was handled since the latest launch
    timerEnded,     \* history: launches whose scene, free of errors, was ended
                    \* by the auto-stop timer armed for it
    stopReply,      \* history: the result of that request's reply, and whether
                    \* a scene was playing when it was handled
    autoStopped,    \* the stop done by an auto-stop timer in the latest frame
    runReplies,     \* final results of the run requests, as sent to their requesters
    \* ---- remote inspection
    rtree,          \* the Scene dock's remote tree and the inspector behind it
    tool,           \* the Adapter's get_remote_* tool call
    ireq,           \* the get_remote_* request in flight
    toolCalls,      \* number of tool calls started
    \* ---- the Output panel
    panel,          \* RichTextLabel::get_parsed_text()
    last_output_length, \* the read cursor
    \* ---- the router and the breakpoints
    cached_breakpoints, \* GodotPeekDebuggerPlugin::cached_breakpoints
    code_edit,      \* breakpoints set in the script editor (CodeEdit), as (path, line)
    lastWrite,      \* history: what the last set_breakpoint since the last clear did per pair
    routed,         \* history: the latest request routed, its reply and the handler that ran
    \* ---- autoload overrides
    ovFile,         \* the file at OverridesPath
    ovTool,         \* the Adapter's run tool between writeOverrides and sendRequest
    game,           \* the game process: what its launch was given and what its helper applied
    \* ---- startup
    dirName,        \* name of the project directory, as code points
    envSocket,      \* GODOT_PEEK_SOCKET is set
    goPath,         \* the socket path the Adapter resolved
    cppPath,        \* the socket path the Editor Server derived
    cr,             \* connectWithRetry: position, attempt counter, waits and outcomes
    \* ---- screenshots
    shotGame,       \* the running game as capture_game sees it
    shotReply,      \* the latest get_screenshot reply
    \* ---- cached widget references
    objectDB,       \* the live objects: instance id and address of each
    nextInstanceId, \* the instance id the next object gets
    inTree,         \* the instance id of the Output panel the editor UI shows, or 0
    output_panel,   \* the finder's CachedRef to the Output panel
    lookup,         \* the latest get_output_panel call, if any: what it found
                    \* cached and what it returned
    outReply        \* the latest get_output reply, with the cursor and text it saw

lifecycleVars == <<server_fd, socket_path, owns_socket, spc, startOutcome,
                   fs, sockState, sockAddr, sockCreator, nextSock>>

netVars == <<connPhase, peerOpen, backlog, toServer, toClient, sent, handed, lastRead>>

adapterVars == <<requestID, connected, connOpen, pending, outputBuffer, readLoop,
                 dispatch, pc, reqId, chanBuf, result, ctxDone, fdmu, wire,
                 incoming, peerEOF, framesSent, issued, deliveredLog>>

sceneVars == <<impl, now, is_playing, paused, debugError, inbox, auto_stop_active,
               auto_stop_timeout, mcp_launch_id, was_playing, timers, pending_run,
               rc, launchSeq, lastTimeout, replaced, launchTime, playOrigin, armedFor,
               earlyStop, stopRequested, stopReply, timerEnded, autoStopped, runReplies>>

inspectVars == <<rtree, tool, ireq, toolCalls>>

outputVars == <<panel, last_output_length, outReply>>

routerVars == <<cached_breakpoints, code_edit, lastWrite, routed>>

overridesVars == <<ovFile, ovTool, game>>

startupVars == <<dirName, envSocket, goPath, cppPath, cr>>

captureVars == <<shotGame, shotReply>>

finderVars == <<objectDB, nextInstanceId, inTree, output_panel, lookup>>

editorVars == <<sceneVars, inspectVars, outputVars, routerVars, overridesVars,
                startupVars, captureVars, finderVars>>

otherThanScene == <<lifecycleVars, clients, netVars, adapterVars, inspectVars,
                    outputVars, routerVars, overridesVars, startupVars, captureVars,
                    finderVars>>

otherThanInspect == <<lifecycleVars, clients, netVars, adapterVars, sceneVars,
                      outputVars, routerVars, overridesVars, startupVars, captureVars,
                      finderVars>>

otherThanOutput == <<lifecycleVars, clients, netVars, adapterVars, sceneVars,
                     inspectVars, routerVars, overridesVars, startupVars, captureVars,
                     finderVars>>

otherThanRouter == <<lifecycleVars, clients, netVars, adapterVars, sceneVars,
                     inspectVars, outputVars, overridesVars, startupVars, captureVars,
                     finderVars>>

otherThanOverrides == <<lifecycleVars, clients, netVars, adapterVars, sceneVars,
                        inspectVars, outputVars, routerVars, startupVars, captureVars,
                        finderVars>>

otherThanStartup == <<lifecycleVars, clients, netVars, adapterVars, sceneVars,
                      inspectVars, outputVars, routerVars, overridesVars, captureVars,
                      finderVars>>

otherThanCapture == <<lifecycleVars, clients, netVars, adapterVars, sceneVars,
                      inspectVars, outputVars, routerVars, overridesVars, startupVars,
                      finderVars>>

otherThanFinder == <<lifecycleVars, clients, netVars, adapterVars, sceneVars,
                     inspectVars, outputVars, routerVars, overridesVars, startupVars,
                     captureVars>>

vars == <<lifecycleVars, clients, netVars, adapterVars, editorVars>>

\* the sendRequest calls of a run, each on a tool-handler goroutine of its own
Calls == {1, 2}
\* the empty pending map
NoPending == [id \in {} |-> 0]
NoDispatch == [ch |-> 0, id |-> 0]

\* NewClient: an empty pending map, not connected; the id counter at zero
InitClient ==
    /\ requestID = 0
    /\ connected = FALSE
    /\ connOpen = FALSE
    /\ pending = NoPending
    /\ outputBuffer = <<>>
    /\ readLoop = "not_started"
    /\ dispatch = NoDispatch
    /\ pc = [k \in Calls |-> "idle"]
    /\ reqId = [k \in Calls |-> 0]
    /\ chanBuf = [k \in Calls |-> <<>>]
    /\ result = [k \in Calls |-> [kind |-> "none", id |-> 0]]
    /\ ctxDone = [k \in Calls |-> FALSE]
    /\ fdmu = 0
    /\ wire = <<>>
    /\ incoming = <<>>
    /\ peerEOF = FALSE
    /\ framesSent = 0
    /\ issued = <<>>
    /\ deliveredLog = <<>>

(***************************************************************************)
(* Scene control: run_* / stop_scene, the auto-stop timer and the          *)
(* startup-fault check.  Two servers exist for the same editor: the C++    *)
(* extension (GodotPeekPlugin, MessageHandler) whose run tools are         *)
(* completed by the Adapter (Client.checkStartupErrors), and the GDScript  *)
(* addon (mcp_server.gd) which keeps a pending-run record and a launch id. *)
(* impl says which one is installed.  Time is in milliseconds; one frame   *)
(* lasts FrameMs.                                                          *)
(***************************************************************************)

\* requests a client sends: run_main_scene/run_scene/run_current_scene with
\* their timeout_seconds, stop_scene, get_debugger_state; call is 1 for the
\* requests of the Adapter's RunMainScene tool call, 0 for any other sender
Timeouts == {0, 2 * FrameMs}
Requests ==
    [method : {"run"}, timeout : Timeouts, call : {0, 1}]
      \cup [method : {"stop", "state"}, timeout : {0}, call : {0, 1}]

Launches == 1..MaxLaunch

NoAutoStop == [scene |-> -1, timer |-> -1, latest |-> -1, timeout |-> 0,
               afterStopRequest |-> FALSE]
NoRun == [launch |-> 0, check_time |-> 0]
IdleCall == [pc |-> "idle", timeout |-> 0, launch |-> 0, ackTime |-> 0,
             paused |-> FALSE, isPlaying |-> FALSE, error_detected |-> FALSE]

\* the editor with the server just loaded: nothing playing, no timer, no record
NoStopReply == [any |-> FALSE, before |-> FALSE, has_was_playing |-> FALSE,
                was_playing |-> FALSE]

IdleScene ==
    /\ now = 0
    /\ is_playing = FALSE
    /\ paused = FALSE
    /\ debugError = FALSE
    /\ playOrigin = 0
    /\ launchSeq = 0
    /\ lastTimeout = 0
    /\ replaced = -1
    /\ launchTime = 0
    /\ earlyStop = [n \in Launches |-> FALSE]
    /\ stopRequested = FALSE
    /\ stopReply = NoStopReply
    /\ timerEnded = {}
    /\ inbox = <<>>
    /\ auto_stop_active = FALSE
    /\ auto_stop_timeout = 0
    /\ armedFor = 0
    /\ mcp_launch_id = 0
    /\ was_playing = FALSE
    /\ timers = {}
    /\ pending_run = NoRun
    /\ autoStopped = NoAutoStop
    /\ runReplies = <<>>
    /\ rc = IdleCall

\* nodes of the running game's scene tree, and a path that is not in it
Nodes == {"Player", "Enemy"}
NodePaths == Nodes \cup {"Ghost"}

NoRequest == [method |-> "none", path |-> ""]
NoNodeReply == [error |-> FALSE, pending |-> FALSE, count |-> 0]
IdleTool == [pc |-> "idle", method |-> "none", path |-> "", sent |-> 0,
             firstPending |-> FALSE, reply |-> NoNodeReply, result |-> NoNodeReply]

\* no game running: the Scene dock shows the local tree, nothing is selected
IdleInspect ==
    /\ rtree = [running |-> FALSE, pressed |-> FALSE, populated |-> FALSE,
                selected |-> "none", loaded |-> FALSE, selectCalls |-> 0,
                signals |-> 0]
    /\ tool = IdleTool
    /\ ireq = NoRequest
    /\ toolCalls = 0

\* characters of the Output panel's parsed text
Chars == {"a", "b"}

NoOutputReply == [ok |-> FALSE, new_only |-> FALSE, clear |-> FALSE, output |-> <<>>,
                  length |-> 0, total_length |-> 0, before |-> 0, text |-> <<>>]

\* an empty Output panel; int64_t last_output_length = 0
IdleOutput ==
    /\ panel = <<>>
    /\ last_output_length = 0
    /\ outReply = NoOutputReply

\* scripts of the project and lines a breakpoint may be set on
ScriptPaths == {"res://a.gd", "res://b.gd", "res://c.gd"}
BpLines == {1}

NoRouted ==
    [any |-> FALSE,
     req |-> [json |-> FALSE, id |-> [kind |-> "absent", v10 |-> 0], method |-> "absent",
              params |-> [path |-> "", line |-> 0, enabled |-> FALSE, complete |-> FALSE]],
     reply |-> [id |-> [kind |-> "null", v10 |-> 0], error |-> FALSE, code |-> 0],
     handler |-> "none", held |-> 0, rewrite |-> FALSE, changed |-> FALSE]

\* std::vector<CachedBreakpoint> cached_breakpoints, empty; no breakpoint set
IdleRouter ==
    /\ cached_breakpoints = <<>>
    /\ code_edit = {}
    /\ lastWrite = [p \in ScriptPaths \X BpLines |-> "none"]
    /\ routed = NoRouted

\* autoloads of the project, their properties and the values given to them
Autoloads == {"Audio", "Game"}
OverrideProps == {"level"}
OverrideValues == {1, 2}

NoOverrides == [nil |-> FALSE, names |-> {}, props |-> {}]
NoOverridesFile == [exists |-> FALSE, data |-> <<>>]

\* no overrides file, no game running
IdleOverrides ==
    /\ ovFile = NoOverridesFile
    /\ ovTool = [pc |-> "idle", ov |-> NoOverrides]
    /\ game = [running |-> FALSE, helper |-> FALSE, supplied |-> NoOverrides,
               applied |-> {}]

\* code points a directory name is made of: a, B, '-', '_' and E-acute
Runes == {97, 66, 45, 95, 201}

NoSocketPath == [set |-> FALSE, env |-> FALSE, default |-> FALSE, name |-> <<>>]
IdleRetry == [pc |-> "idle", i |-> 0, timer |-> 0, waited |-> 0, delays |-> <<>>,
              outcomes |-> <<>>, result |-> "none", cancelled |-> FALSE,
              cancelledIn |-> "none"]

\* neither peer has started
IdleStartup ==
    /\ dirName = <<>>
    /\ envSocket = FALSE
    /\ goPath = NoSocketPath
    /\ cppPath = NoSocketPath
    /\ cr = IdleRetry

NoShotGame == [running |-> FALSE, answersAfter |-> -1]
NoShotReply == [any |-> FALSE, target |-> "none", kind |-> "none", blockedMs |-> 0]

\* no game, no screenshot taken
IdleCapture ==
    /\ shotGame = NoShotGame
    /\ shotReply = NoShotReply

\* the addresses the allocator uses
Addrs == {"p", "q", "r"}
NullRef == [ptr |-> "nullptr", id |-> 0]

\* no panel built, nothing cached, no lookup made
IdleFinder ==
    /\ objectDB = {}
    /\ nextInstanceId = 1
    /\ inTree = 0
    /\ output_panel = NullRef
    /\ lookup = <<>>

\* the editor as the other specifications leave it: the extension installed,
\* nothing playing
IdleEditor ==
    /\ impl = "extension"
    /\ IdleScene
    /\ IdleInspect
    /\ IdleOutput
    /\ IdleRouter
    /\ IdleOverrides
    /\ IdleStartup
    /\ IdleCapture
    /\ IdleFinder

NoFile == [kind |-> "none", ino |-> 0]
StaleFile == [kind |-> "stale", ino |-> 0]
SockFile(s) == [kind |-> "sock", ino |-> s]

(***************************************************************************)
(* SocketServer::start / stop  (socket_server.cpp)                         *)
(***************************************************************************)

\* access(path, F_OK) == 0
FileExists(p) == fs[p].kind # "none"

\* a probe that never finds a listener
IsSocketAliveNever(p) == FALSE

\* is_socket_alive: connect() to the path succeeds iff the file there is a
\* socket with a listener behind it
IsSocketAlive(p) ==
    /\ fs[p].kind = "sock"
    /\ sockState[fs[p].ino] = "listening"

\* close(fd) as seen by the kernel socket table
CloseSock(ss, fd) == IF fd = NoFd THEN ss ELSE [ss EXCEPT ![fd] = "closed"]

\* start(path), line 64: socket_path = path
StartCall(i, p) ==
    /\ UNCHANGED <<clients, netVars, adapterVars, editorVars>>
    /\ spc[i] = "idle"
    /\ socket_path' = [socket_path EXCEPT ![i] = p]
    /\ spc' = [spc EXCEPT ![i] = "probe"]
    /\ UNCHANGED <<server_fd, owns_socket, startOutcome, fs, sockState,
                   sockAddr, sockCreator, nextSock>>

\* start(), lines 68-71: the liveness probe
StartProbe(i) ==
    /\ UNCHANGED <<clients, netVars, adapterVars, editorVars>>
    /\ spc[i] = "probe"
    /\ IF FileExists(socket_path[i]) /\ IsSocketAlive(socket_path[i])
         THEN /\ startOutcome' = [startOutcome EXCEPT ![i] = "refused"]
              /\ spc' = [spc EXCEPT ![i] = "idle"]
         ELSE /\ spc' = [spc EXCEPT ![i] = "socket"]
              /\ UNCHANGED startOutcome
    /\ UNCHANGED <<server_fd, socket_path, owns_socket, fs, sockState,
                   sockAddr, sockCreator, nextSock>>

\* start(), lines 78-84: socket() fails, server_fd holds the failure value
StartSocketFail(i) ==
    /\ UNCHANGED <<clients, netVars, adapterVars, editorVars>>
    /\ spc[i] = "socket"
    /\ server_fd' = [server_fd EXCEPT ![i] = NoFd]
    /\ startOutcome' = [startOutcome EXCEPT ![i] = "socket_failed"]
    /\ spc' = [spc EXCEPT ![i] = "idle"]
    /\ UNCHANGED <<socket_path, owns_socket, fs, sockState, sockAddr,
                   sockCreator, nextSock>>

\* start(), lines 78-91: socket() succeeds, then unlink(socket_path)
StartUnlink(i) ==
    /\ UNCHANGED <<clients, netVars, adapterVars, editorVars>>
    /\ spc[i] = "socket"
    /\ nextSock <= MaxSock
    /\ server_fd' = [server_fd EXCEPT ![i] = nextSock]
    /\ sockState' = [sockState EXCEPT ![nextSock] = "open"]
    /\ sockCreator' = [sockCreator EXCEPT ![nextSock] = i]
    /\ nextSock' = nextSock + 1
    /\ fs' = [fs EXCEPT ![socket_path[i]] = NoFile]
    /\ spc' = [spc EXCEPT ![i] = "bind"]
    /\ UNCHANGED <<socket_path, owns_socket, startOutcome, sockAddr>>

\* start(), lines 103-107: bind() creates the socket file, or fails when a
\* file is already at the path
StartBind(i) ==
    /\ UNCHANGED <<clients, netVars, adapterVars, editorVars>>
    /\ spc[i] = "bind"
    /\ IF FileExists(socket_path[i])
         THEN /\ sockState' = CloseSock(sockState, server_fd[i])
              /\ server_fd' = [server_fd EXCEPT ![i] = NoFd]
              /\ startOutcome' = [startOutcome EXCEPT ![i] = "bind_failed"]
              /\ spc' = [spc EXCEPT ![i] = "idle"]
              /\ UNCHANGED <<fs, sockAddr>>
         ELSE /\ fs' = [fs EXCEPT ![socket_path[i]] = SockFile(server_fd[i])]
              /\ sockState' = [sockState EXCEPT ![server_fd[i]] = "bound"]
              /\ sockAddr' = [sockAddr EXCEPT ![server_fd[i]] = socket_path[i]]
              /\ spc' = [spc EXCEPT ![i] = "listen"]
              /\ UNCHANGED <<server_fd, startOutcome>>
    /\ UNCHANGED <<socket_path, owns_socket, sockCreator, nextSock>>

\* start(), lines 111-125: listen() succeeds, owns_socket = true
StartListen(i) ==
    /\ UNCHANGED <<clients, netVars, adapterVars, editorVars>>
    /\ spc[i] = "listen"
    /\ sockState' = [sockState EXCEPT ![server_fd[i]] = "listening"]
    /\ owns_socket' = [owns_socket EXCEPT ![i] = TRUE]
    /\ startOutcome' = [startOutcome EXCEPT ![i] = "ok"]
    /\ spc' = [spc EXCEPT ![i] = "idle"]
    /\ UNCHANGED <<server_fd, socket_path, fs, sockAddr, sockCreator, nextSock>>

\* start(), lines 111-116: listen() fails: close, unlink, return false
StartListenFail(i) ==
    /\ UNCHANGED <<clients, netVars, adapterVars, editorVars>>
    /\ spc[i] = "listen"
    /\ sockState' = CloseSock(sockState, server_fd[i])
    /\ server_fd' = [server_fd EXCEPT ![i] = NoFd]
    /\ fs' = [fs EXCEPT ![socket_path[i]] = NoFile]
    /\ startOutcome' = [startOutcome EXCEPT ![i] = "listen_failed"]
    /\ spc' = [spc EXCEPT ![i] = "idle"]
    /\ UNCHANGED <<socket_path, owns_socket, sockAddr, sockCreator, nextSock>>

\* stop(), lines 129-139: close the clients and the listening descriptor
StopClose(i) ==
    /\ spc[i] = "idle"
    /\ clients' = [clients EXCEPT ![i] = <<>>]
    /\ connPhase' = [c \in Conns |->
                        IF \E k \in 1..Len(clients[i]) : clients[i][k].fd = c
                          THEN "closed" ELSE connPhase[c]]
    /\ UNCHANGED <<peerOpen, backlog, toServer, toClient, sent, handed, lastRead, adapterVars, editorVars>>
    /\ sockState' = CloseSock(sockState, server_fd[i])
    /\ server_fd' = [server_fd EXCEPT ![i] = NoFd]
    /\ spc' = [spc EXCEPT ![i] = "stop_unlink"]
    /\ UNCHANGED <<socket_path, owns_socket, startOutcome, fs, sockAddr,
                   sockCreator, nextSock>>

\* stop(), lines 142-146: unlink the socket file if owns_socket, clear the path
StopUnlink(i) ==
    /\ UNCHANGED <<clients, netVars, adapterVars, editorVars>>
    /\ spc[i] = "stop_unlink"
    /\ IF owns_socket[i] /\ socket_path[i] # NoPath
         THEN /\ fs' = [fs EXCEPT ![socket_path[i]] = NoFile]
              /\ owns_socket' = [owns_socket EXCEPT ![i] = FALSE]
         ELSE UNCHANGED <<fs, owns_socket>>
    /\ socket_path' = [socket_path EXCEPT ![i] = NoPath]
    /\ spc' = [spc EXCEPT ![i] = "idle"]
    /\ UNCHANGED <<server_fd, startOutcome, sockState, sockAddr, sockCreator,
                   nextSock>>

\* after construction: no descriptor, no path, nothing owned; a path may hold
\* a stale file left by a crashed run
InitLifecycle ==
    /\ server_fd = [i \in Instances |-> NoFd]
    /\ socket_path = [i \in Instances |-> NoPath]
    /\ owns_socket = [i \in Instances |-> FALSE]
    /\ spc = [i \in Instances |-> "idle"]
    /\ startOutcome = [i \in Instances |-> "none"]
    /\ fs \in [Paths -> {NoFile, StaleFile}]
    /\ sockState = [s \in Socks |-> "unused"]
    /\ sockAddr = [s \in Socks |-> NoPath]
    /\ sockCreator = [s \in Socks |-> "nobody"]
    /\ nextSock = 1
    /\ clients = [i \in Instances |-> <<>>]
    /\ connPhase = [c \in Conns |-> "none"]
    /\ peerOpen = [c \in Conns |-> FALSE]
    /\ backlog = <<>>
    /\ toServer = [c \in Conns |-> <<>>]
    /\ toClient = [c \in Conns |-> <<>>]
    /\ sent = [c \in Conns |-> <<>>]
    /\ handed = [c \in Conns |-> <<>>]
    /\ lastRead = [c \in Conns |-> 0]
    /\ InitClient
    /\ IdleEditor

NextLifecycle ==
    \/ \E i \in Instances, p \in Paths : StartCall(i, p)
    \/ \E i \in Instances : StartProbe(i)
    \/ \E i \in Instances : StartSocketFail(i)
    \/ \E i \in Instances : StartUnlink(i)
    \/ \E i \in Instances : StartBind(i)
    \/ \E i \in Instances : StartListen(i)
    \/ \E i \in Instances : StartListenFail(i)
    \/ \E i \in Instances : StopClose(i)
    \/ \E i \in Instances : StopUnlink(i)

SpecLifecycle == InitLifecycle /\ [][NextLifecycle]_vars

(***************************************************************************)
(* Socket-file ownership                                                   *)
(***************************************************************************)

\* process i's server is accepting connections: it holds a listening socket
Listening(i) ==
    /\ server_fd[i] # NoFd
    /\ sockState[server_fd[i]] = "listening"

\* a server other than i's is accepting connections on the file at path p
OtherAccepting(i, p) ==
    \E j \in Instances \ {i} :
        /\ Listening(j)
        /\ fs[p] = SockFile(server_fd[j])

\* C8: a start() whose probe finds another server accepting connections on
\* the path returns failure at that probe, and that step leaves the file at
\* every path, every kernel socket (so the existing listener) and every
\* server's descriptor as they were.
C8_StartRefusedOnLiveSocket ==
    [][\A i \in Instances :
          (spc[i] = "probe" /\ spc'[i] # "probe"
             /\ OtherAccepting(i, socket_path[i]))
          => /\ spc'[i] = "idle"
             /\ startOutcome'[i] = "refused"
             /\ fs' = fs
             /\ sockState' = sockState
             /\ server_fd' = server_fd]_vars

\* a start() was refused while the other process still listens on that file
C8_Witness ==
    \E i \in Instances :
        /\ spc[i] = "idle"
        /\ startOutcome[i] = "refused"
        /\ socket_path[i] \in Paths
        /\ OtherAccepting(i, socket_path[i])

\* C9: whenever a stop() removes the file at a path, that file is a socket
\* this same process created and bound; a process whose start was refused,
\* or that never started, removes nothing.
C9_StopUnlinksOnlyOwnFile ==
    [][\A i \in Instances :
          (spc[i] = "stop_unlink" /\ spc'[i] = "idle")
          => \A p \in Paths :
                (fs[p] # NoFile /\ fs'[p] = NoFile)
                => /\ fs[p].kind = "sock"
                   /\ sockCreator[fs[p].ino] = i]_vars

\* C10: at most one server is listening on a given socket path
C10_AtMostOneListenerPerPath ==
    \A p \in Paths :
        Cardinality({i \in Instances :
                        Listening(i) /\ sockAddr[server_fd[i]] = p}) <= 1

(***************************************************************************)
(* SocketServer::poll  (socket_server.cpp) and its router                  *)
(***************************************************************************)

\* bytes on the wire: '\n' and, per connection, a payload byte of its own
NL == 10
\* first byte of every reply the router builds ('{')
ReplyMark == 123
PayloadBytes(c) == {100 + c}
\* listen(server_fd, 5)
ListenBacklog == 5
\* char buf[4096]; read(client.fd, buf, sizeof(buf) - 1)
ReadMax == 4095
\* bytes one adapter writes in a run
MaxBytes == 3

Min(a, b) == IF a <= b THEN a ELSE b

\* a search that finds the last newline of the buffer
FindNLLast(buf) ==
    IF \E k \in 1..Len(buf) : buf[k] = NL
      THEN CHOOSE k \in 1..Len(buf) :
               buf[k] = NL /\ \A j \in (k + 1)..Len(buf) : buf[j] # NL
      ELSE 0

\* read_buffer.find('\n'): index of the first newline, 0 when there is none
FindNL(buf) ==
    IF \E k \in 1..Len(buf) : buf[k] = NL
      THEN CHOOSE k \in 1..Len(buf) :
               buf[k] = NL /\ \A j \in 1..(k - 1) : buf[j] # NL
      ELSE 0

\* MessageHandler::handle: every return is a non-empty response built from
\* the request (parse error, make_error or make_result)
Handle(message) == <<ReplyMark>> \o message

\* a reply written to the first client of the list, whoever sent the request
SendTargetFirst(cl, cls) == cls[1].fd

\* send(client.fd, ...): the descriptor the reply is written to
SendTarget(cl, cls) == cl.fd

\* a server that hands every line to the router, empty or not
NeverEmpty(message) == FALSE

\* message.empty()
IsEmpty(message) == message = <<>>

\* poll(), lines 192-213: extract the complete lines of a client's buffer,
\* hand each non-empty one to the router and send the response; sendFails says
\* whether send() on this client fails (EPIPE, ECONNRESET)
RECURSIVE Drain(_, _)
Drain(buf, sendFails) ==
    LET pos == FindNL(buf) IN
    IF pos = 0
      THEN [buffer |-> buf, handed |-> <<>>, written |-> <<>>, dead |-> FALSE]
      ELSE LET message == SubSeq(buf, 1, pos - 1)
               rest == SubSeq(buf, pos + 1, Len(buf))
           IN  IF IsEmpty(message)
                 THEN Drain(rest, sendFails)
                 ELSE LET response == Handle(message) IN
                      IF response = <<>>
                        THEN LET r == Drain(rest, sendFails)
                             IN  [r EXCEPT !.handed = <<message>> \o @]
                        ELSE IF sendFails
                          THEN [buffer |-> rest, handed |-> <<message>>,
                                written |-> <<>>, dead |-> TRUE]
                          ELSE LET r == Drain(rest, sendFails)
                               IN  [r EXCEPT !.handed = <<message>> \o @,
                                             !.written = response \o <<NL>> \o @]

\* a server that accepts one connection per frame
AcceptOne(cls, queue) ==
    IF queue = <<>> THEN cls
    ELSE Append(cls, [fd |-> Head(queue), read_buffer |-> <<>>])

\* poll(), lines 155-175: drain the accept backlog into the client list
AcceptAll(cls, queue) ==
    cls \o [k \in 1..Len(queue) |-> [fd |-> queue[k], read_buffer |-> <<>>]]

\* poll(), lines 179-235: one read per client, in list order.  acc carries the
\* clients kept so far and the connections' state; all is the client list the
\* loop runs over, failing the connections whose send() fails this frame
RECURSIVE ReadClients(_, _, _, _)
ReadClients(k, all, failing, acc) ==
    IF k > Len(all) THEN acc
    ELSE
      LET cl == all[k]
          c == cl.fd
          n == Min(Len(acc.toServer[c]), ReadMax)
      IN
      IF n > 0
        THEN LET d == Drain(cl.read_buffer \o SubSeq(acc.toServer[c], 1, n),
                            c \in failing)
                 target == SendTarget(cl, all)
                 acc1 == [acc EXCEPT
                            !.toServer[c] = SubSeq(@, n + 1, Len(@)),
                            !.handed[c] = @ \o d.handed,
                            !.lastRead[c] = Len(d.handed),
                            !.toClient[target] = @ \o d.written]
             IN  IF d.dead
                   THEN ReadClients(k + 1, all, failing,
                                    [acc1 EXCEPT !.phase[c] = "closed"])
                   ELSE ReadClients(k + 1, all, failing,
                                    [acc1 EXCEPT !.keep = @ \o
                                        <<[fd |-> c, read_buffer |-> d.buffer]>>])
        ELSE IF ~acc.peerOpen[c]
          \* n == 0, or a fatal read error: remove the client
          THEN ReadClients(k + 1, all, failing,
                           [acc EXCEPT !.phase[c] = "closed"])
          \* EAGAIN / EWOULDBLOCK: nothing to read this frame
          ELSE ReadClients(k + 1, all, failing,
                           [acc EXCEPT !.keep = @ \o <<cl>>])

\* SocketServer::poll, called once per frame from _process
Poll(i) ==
    /\ spc[i] = "idle"
    /\ server_fd[i] # NoFd
    /\ \E failing \in SUBSET {c \in DOMAIN connPhase : ~peerOpen[c]} :
         LET all == AcceptAll(clients[i], backlog)
             acc0 == [keep |-> <<>>,
                      phase |-> [c \in DOMAIN connPhase |->
                                   IF \E k \in 1..Len(backlog) : backlog[k] = c
                                     THEN "accepted" ELSE connPhase[c]],
                      peerOpen |-> peerOpen,
                      toServer |-> toServer,
                      toClient |-> toClient,
                      handed |-> handed,
                      lastRead |-> [c \in DOMAIN connPhase |-> 0]]
             acc == ReadClients(1, all, failing, acc0)
         IN  /\ clients' = [clients EXCEPT ![i] = acc.keep]
             /\ connPhase' = acc.phase
             /\ toServer' = acc.toServer
             /\ toClient' = acc.toClient
             /\ handed' = acc.handed
             /\ lastRead' = acc.lastRead
    /\ backlog' = <<>>
    /\ UNCHANGED <<adapterVars, editorVars, lifecycleVars, peerOpen, sent>>

\* an adapter connects (net.Dial): the connection enters the accept queue
ClientConnect(c) ==
    /\ connPhase[c] = "none"
    /\ Len(backlog) < ListenBacklog
    /\ connPhase' = [connPhase EXCEPT ![c] = "backlog"]
    /\ peerOpen' = [peerOpen EXCEPT ![c] = TRUE]
    /\ backlog' = Append(backlog, c)
    /\ UNCHANGED <<adapterVars, editorVars, lifecycleVars, clients, toServer, toClient, sent, handed, lastRead>>

\* an adapter writes one byte of its request stream
ClientSend(c, b) ==
    /\ connPhase[c] \in {"backlog", "accepted"}
    /\ peerOpen[c]
    /\ Len(sent[c]) < MaxBytes
    /\ toServer' = [toServer EXCEPT ![c] = Append(@, b)]
    /\ sent' = [sent EXCEPT ![c] = Append(@, b)]
    /\ UNCHANGED <<adapterVars, editorVars, lifecycleVars, clients, connPhase, peerOpen, backlog,
                   toClient, handed, lastRead>>

\* an adapter closes its end (exit, Close())
ClientClose(c) ==
    /\ connPhase[c] \in {"backlog", "accepted"}
    /\ peerOpen[c]
    /\ peerOpen' = [peerOpen EXCEPT ![c] = FALSE]
    /\ UNCHANGED <<adapterVars, editorVars, lifecycleVars, clients, connPhase, backlog, toServer,
                   toClient, sent, handed, lastRead>>

\* the editor process "ed1" has started its server on a free path
InitTransport ==
    /\ server_fd = [i \in Instances |-> IF i = "ed1" THEN 1 ELSE NoFd]
    /\ socket_path = [i \in Instances |-> IF i = "ed1" THEN "/tmp/a.sock" ELSE NoPath]
    /\ owns_socket = [i \in Instances |-> i = "ed1"]
    /\ spc = [i \in Instances |-> "idle"]
    /\ startOutcome = [i \in Instances |-> IF i = "ed1" THEN "ok" ELSE "none"]
    /\ fs = [p \in Paths |-> IF p = "/tmp/a.sock" THEN SockFile(1) ELSE NoFile]
    /\ sockState = [s \in Socks |-> IF s = 1 THEN "listening" ELSE "unused"]
    /\ sockAddr = [s \in Socks |-> IF s = 1 THEN "/tmp/a.sock" ELSE NoPath]
    /\ sockCreator = [s \in Socks |-> IF s = 1 THEN "ed1" ELSE "nobody"]
    /\ nextSock = 2
    /\ clients = [i \in Instances |-> <<>>]
    /\ connPhase = [c \in Conns |-> "none"]
    /\ peerOpen = [c \in Conns |-> FALSE]
    /\ backlog = <<>>
    /\ toServer = [c \in Conns |-> <<>>]
    /\ toClient = [c \in Conns |-> <<>>]
    /\ sent = [c \in Conns |-> <<>>]
    /\ handed = [c \in Conns |-> <<>>]
    /\ lastRead = [c \in Conns |-> 0]
    /\ InitClient
    /\ IdleEditor

NextTransport ==
    \/ \E i \in Instances : Poll(i)
    \/ \E c \in Conns : ClientConnect(c)
    \/ \E c \in Conns : \E b \in PayloadBytes(c) \cup {NL} : ClientSend(c, b)
    \/ \E c \in Conns : ClientClose(c)

SpecTransport == InitTransport /\ [][NextTransport]_vars

\* the reply lines the router's responses to these requests make on the wire
RECURSIVE ReplyLines(_)
ReplyLines(msgs) ==
    IF msgs = <<>> THEN <<>>
    ELSE Handle(Head(msgs)) \o <<NL>> \o ReplyLines(Tail(msgs))

\* the server still holds the connection in its client list
Held(c) ==
    \E i \in Instances : \E k \in 1..Len(clients[i]) : clients[i][k].fd = c

MaxOutputBuffer == 1000
\* respCh := make(chan *Response, 1)
RespChanCap == 1

\* ids as the wire carries them, in tenths: JSON numbers need not be integral
FrameIds10 == {10 * k : k \in Calls} \cup {15}

\* what the server may write on the connection, one line each
Frames ==
    [kind : {"resp"}, id10 : FrameIds10]
      \cup [kind : {"notif", "garbage", "empty", "too_long"}, id10 : {0}]

\* int64(*msg.ID): a float64 id truncated to an integer
ToInt64(id10) == id10 \div 10

\* a counter whose update is lost once it has been used
NextIDLostUpdate(cur) == IF cur = 0 THEN 1 ELSE cur

\* requestID.Add(1): the value nextID returns from the counter's value
NextIDValue(cur) == cur + 1

\* delete(c.pending, id)
MapDelete(pend, id) == [x \in (DOMAIN pend) \ {id} |-> pend[x]]

\* a registration that points every slot at the newest channel
MapPutNewest(pend, id, ch) == [x \in (DOMAIN pend) \cup {id} |-> ch]

\* c.pending[id] = respCh
MapPut(pend, id, ch) == [x \in (DOMAIN pend) \cup {id} |-> IF x = id THEN ch ELSE pend[x]]

\* a lookup that leaves the slot in the map
HandleDeleteKeeps(pend, id) == pend

\* handleMessage, lines 744-749: the slot is removed when its frame is found
HandleDelete(pend, id) == MapDelete(pend, id)

\* a return that leaves the slot in the map
DeferDeleteKeeps(pend, id) == pend

\* sendRequest, lines 856-860: the deferred delete
DeferDelete(pend, id) == MapDelete(pend, id)

\* a write that does not wait for the descriptor's write lock
WriteLockIgnored == TRUE

\* conn.Write: net.Conn serialises Write calls on the descriptor's write lock,
\* held until the whole buffer is written
WriteLockFree == fdmu = 0

\* a select without its deadline branch
TimerNever(k) == FALSE

\* time.After(30 * time.Second): the deadline passes while the call waits
TimerFires(k) == pc[k] = "wait"

Outcome(kind, id) == [kind |-> kind, id |-> id]

\* Client.Connect: dial, connected = true, go readLoop()
Connect ==
    /\ readLoop = "not_started"
    /\ ~connOpen
    /\ connOpen' = TRUE
    /\ connected' = TRUE
    /\ readLoop' = "scan"
    /\ UNCHANGED <<lifecycleVars, clients, netVars, editorVars, requestID, pending,
                   outputBuffer, dispatch, pc, reqId, chanBuf, result, ctxDone,
                   fdmu, wire, incoming, peerEOF, framesSent, issued, deliveredLog>>

\* Client.Close: cancel the client's context and close the connection
Close ==
    /\ connOpen
    /\ connOpen' = FALSE
    /\ UNCHANGED <<lifecycleVars, clients, netVars, editorVars, requestID, connected, pending,
                   outputBuffer, readLoop, dispatch, pc, reqId, chanBuf, result,
                   ctxDone, fdmu, wire, incoming, peerEOF, framesSent, issued,
                   deliveredLog>>

\* sendRequest, lines 826-833: the connectedness check
SendCheck(k) ==
    /\ pc[k] = "idle"
    /\ IF connected
         THEN /\ pc' = [pc EXCEPT ![k] = "next_id"]
              /\ UNCHANGED result
         ELSE /\ pc' = [pc EXCEPT ![k] = "done"]
              /\ result' = [result EXCEPT ![k] = Outcome("not_connected", 0)]
    /\ UNCHANGED <<lifecycleVars, clients, netVars, editorVars, requestID, connected,
                   connOpen, pending, outputBuffer, readLoop, dispatch, reqId,
                   chanBuf, ctxDone, fdmu, wire, incoming, peerEOF, framesSent,
                   issued, deliveredLog>>

\* sendRequest, line 835: id := nextID()
SendNextID(k) ==
    /\ pc[k] = "next_id"
    /\ requestID' = NextIDValue(requestID)
    /\ reqId' = [reqId EXCEPT ![k] = requestID']
    /\ issued' = Append(issued, requestID')
    /\ pc' = [pc EXCEPT ![k] = "register"]
    /\ UNCHANGED <<lifecycleVars, clients, netVars, editorVars, connected, connOpen, pending,
                   outputBuffer, readLoop, dispatch, chanBuf, result, ctxDone,
                   fdmu, wire, incoming, peerEOF, framesSent, deliveredLog>>

\* sendRequest, lines 850-854: make the channel and register it under the id
SendRegister(k) ==
    /\ pc[k] = "register"
    /\ pending' = MapPut(pending, reqId[k], k)
    /\ chanBuf' = [chanBuf EXCEPT ![k] = <<>>]
    /\ pc' = [pc EXCEPT ![k] = "write"]
    /\ UNCHANGED <<lifecycleVars, clients, netVars, editorVars, requestID, connected, connOpen,
                   outputBuffer, readLoop, dispatch, reqId, result, ctxDone, fdmu,
                   wire, incoming, peerEOF, framesSent, issued, deliveredLog>>

\* sendRequest, line 863: conn.Write(data) starts; it fails at once on a
\* connection that is closed on either side
SendWriteBegin(k) ==
    /\ pc[k] = "write"
    /\ WriteLockFree
    /\ IF connOpen /\ ~peerEOF
         THEN /\ wire' = Append(wire, [call |-> k, part |-> 1])
              /\ fdmu' = k
              /\ pc' = [pc EXCEPT ![k] = "writing"]
              /\ UNCHANGED result
         ELSE /\ result' = [result EXCEPT ![k] = Outcome("write_error", 0)]
              /\ pc' = [pc EXCEPT ![k] = "defer"]
              /\ UNCHANGED <<wire, fdmu>>
    /\ UNCHANGED <<lifecycleVars, clients, netVars, editorVars, requestID, connected, connOpen,
                   pending, outputBuffer, readLoop, dispatch, reqId, chanBuf,
                   ctxDone, incoming, peerEOF, framesSent, issued, deliveredLog>>

\* sendRequest, lines 863-865: conn.Write writes the rest of the frame, with
\* its newline, and returns
SendWriteEnd(k) ==
    /\ pc[k] = "writing"
    /\ IF connOpen /\ ~peerEOF
         THEN /\ wire' = Append(wire, [call |-> k, part |-> 2])
              /\ pc' = [pc EXCEPT ![k] = "wait"]
              /\ UNCHANGED result
         ELSE /\ result' = [result EXCEPT ![k] = Outcome("write_error", 0)]
              /\ pc' = [pc EXCEPT ![k] = "defer"]
              /\ UNCHANGED wire
    /\ fdmu' = 0
    /\ UNCHANGED <<lifecycleVars, clients, netVars, editorVars, requestID, connected, connOpen,
                   pending, outputBuffer, readLoop, dispatch, reqId, chanBuf,
                   ctxDone, incoming, peerEOF, framesSent, issued, deliveredLog>>

\* sendRequest, lines 869-870: case resp := <-respCh
SendRecv(k) ==
    /\ pc[k] = "wait"
    /\ chanBuf[k] # <<>>
    /\ result' = [result EXCEPT ![k] = Outcome("reply", Head(chanBuf[k]))]
    /\ chanBuf' = [chanBuf EXCEPT ![k] = <<>>]
    /\ pc' = [pc EXCEPT ![k] = "defer"]
    /\ UNCHANGED <<lifecycleVars, clients, netVars, editorVars, requestID, connected, connOpen,
                   pending, outputBuffer, readLoop, dispatch, reqId, ctxDone, fdmu,
                   wire, incoming, peerEOF, framesSent, issued, deliveredLog>>

\* sendRequest, lines 871-872: case <-ctx.Done()
SendCtxDone(k) ==
    /\ pc[k] = "wait"
    /\ ctxDone[k]
    /\ result' = [result EXCEPT ![k] = Outcome("cancelled", 0)]
    /\ pc' = [pc EXCEPT ![k] = "defer"]
    /\ UNCHANGED <<lifecycleVars, clients, netVars, editorVars, requestID, connected, connOpen,
                   pending, outputBuffer, readLoop, dispatch, reqId, chanBuf,
                   ctxDone, fdmu, wire, incoming, peerEOF, framesSent, issued,
                   deliveredLog>>

\* sendRequest, lines 873-874: case <-time.After(30 * time.Second)
SendTimeout(k) ==
    /\ pc[k] = "wait"
    /\ TimerFires(k)
    /\ result' = [result EXCEPT ![k] = Outcome("timeout", 0)]
    /\ pc' = [pc EXCEPT ![k] = "defer"]
    /\ UNCHANGED <<lifecycleVars, clients, netVars, editorVars, requestID, connected, connOpen,
                   pending, outputBuffer, readLoop, dispatch, reqId, chanBuf,
                   ctxDone, fdmu, wire, incoming, peerEOF, framesSent, issued,
                   deliveredLog>>

\* sendRequest, lines 856-860: the deferred delete runs and the call returns
SendDefer(k) ==
    /\ pc[k] = "defer"
    /\ pending' = DeferDelete(pending, reqId[k])
    /\ pc' = [pc EXCEPT ![k] = "done"]
    /\ UNCHANGED <<lifecycleVars, clients, netVars, editorVars, requestID, connected, connOpen,
                   outputBuffer, readLoop, dispatch, reqId, chanBuf, result,
                   ctxDone, fdmu, wire, incoming, peerEOF, framesSent, issued,
                   deliveredLog>>

\* the caller cancels the context it passed to sendRequest
CtxCancel(k) ==
    /\ pc[k] = "wait"
    /\ ~ctxDone[k]
    /\ ctxDone' = [ctxDone EXCEPT ![k] = TRUE]
    /\ UNCHANGED <<lifecycleVars, clients, netVars, editorVars, requestID, connected, connOpen,
                   pending, outputBuffer, readLoop, dispatch, pc, reqId, chanBuf,
                   result, fdmu, wire, incoming, peerEOF, framesSent, issued,
                   deliveredLog>>

\* addOutput, lines 770-786
AddOutput(buf) ==
    LET b == Append(buf, "out") IN
    IF Len(b) > MaxOutputBuffer
      THEN SubSeq(b, Len(b) - MaxOutputBuffer + 1, Len(b))
      ELSE b

\* a read loop without its deferred function: connected stays set
ReadLoopExitKeepsConnected ==
    /\ readLoop = "scan"
    /\ \/ ~connOpen
       \/ incoming = <<>> /\ peerEOF
       \/ incoming # <<>> /\ Head(incoming).kind = "too_long"
    /\ readLoop' = "exited"
    /\ incoming' = IF incoming # <<>> /\ connOpen THEN Tail(incoming) ELSE incoming
    /\ UNCHANGED <<lifecycleVars, clients, netVars, editorVars, requestID, connOpen, pending,
                   outputBuffer, dispatch, pc, reqId, chanBuf, result, ctxDone,
                   fdmu, wire, peerEOF, framesSent, issued, deliveredLog, connected>>

\* readLoop, lines 680-702: the client's context is done, or Scan() returns
\* false (EOF, a read error, a line longer than the scanner's buffer); the
\* deferred function clears connected
ReadLoopExit ==
    /\ readLoop = "scan"
    /\ \/ ~connOpen
       \/ incoming = <<>> /\ peerEOF
       \/ incoming # <<>> /\ Head(incoming).kind = "too_long"
    /\ connected' = FALSE
    /\ readLoop' = "exited"
    /\ incoming' = IF incoming # <<>> /\ connOpen THEN Tail(incoming) ELSE incoming
    /\ UNCHANGED <<lifecycleVars, clients, netVars, editorVars, requestID, connOpen, pending,
                   outputBuffer, dispatch, pc, reqId, chanBuf, result, ctxDone,
                   fdmu, wire, peerEOF, framesSent, issued, deliveredLog>>

\* readLoop, lines 696-710, and handleMessage up to the channel send: scan one
\* line; skip an empty one; drop one that does not parse; look a response's id
\* up in pending (removing the slot) or log that nothing waits for it; buffer
\* an output notification
ReadFrame ==
    /\ readLoop = "scan"
    /\ connOpen
    /\ incoming # <<>>
    /\ Head(incoming).kind # "too_long"
    /\ incoming' = Tail(incoming)
    /\ LET f == Head(incoming)
           id == ToInt64(f.id10)
       IN  CASE f.kind = "resp" /\ id \in DOMAIN pending ->
                  /\ pending' = HandleDelete(pending, id)
                  /\ dispatch' = [ch |-> pending[id], id |-> id]
                  /\ readLoop' = "dispatch"
                  /\ UNCHANGED outputBuffer
             [] f.kind = "resp" /\ id \notin DOMAIN pending ->
                  UNCHANGED <<pending, dispatch, readLoop, outputBuffer>>
             [] f.kind = "notif" ->
                  /\ outputBuffer' = AddOutput(outputBuffer)
                  /\ UNCHANGED <<pending, dispatch, readLoop>>
             [] OTHER ->
                  UNCHANGED <<pending, dispatch, readLoop, outputBuffer>>
    /\ UNCHANGED <<lifecycleVars, clients, netVars, editorVars, requestID, connected, connOpen,
                   pc, reqId, chanBuf, result, ctxDone, fdmu, wire, peerEOF,
                   framesSent, issued, deliveredLog>>

\* an unbuffered channel: a send completes only while the receiver waits in
\* its select
SendCompletesUnbuffered(k) == pc[k] = "wait"

\* ch <- resp on a channel made with make(chan *Response, 1): the send
\* completes at once while the buffer has room
SendCompletes(k) == Len(chanBuf[k]) < RespChanCap

\* handleMessage, lines 751-753: ch <- resp; the send waits while the
\* channel's one-element buffer is full
DispatchSend ==
    /\ readLoop = "dispatch"
    /\ SendCompletes(dispatch.ch)
    /\ chanBuf' = [chanBuf EXCEPT ![dispatch.ch] = <<dispatch.id>>]
    /\ deliveredLog' = Append(deliveredLog, dispatch.id)
    /\ dispatch' = NoDispatch
    /\ readLoop' = "scan"
    /\ UNCHANGED <<lifecycleVars, clients, netVars, editorVars, requestID, connected, connOpen,
                   pending, outputBuffer, pc, reqId, result, ctxDone, fdmu, wire,
                   incoming, peerEOF, framesSent, issued>>

\* the Editor Server writes a line to the Adapter's connection
ServerSend(f) ==
    /\ readLoop # "not_started"
    /\ ~peerEOF
    /\ framesSent < MaxFrames
    /\ Len(incoming) < MaxQueued
    /\ incoming' = Append(incoming, f)
    /\ framesSent' = framesSent + 1
    /\ UNCHANGED <<lifecycleVars, clients, netVars, editorVars, requestID, connected, connOpen,
                   pending, outputBuffer, readLoop, dispatch, pc, reqId, chanBuf,
                   result, ctxDone, fdmu, wire, peerEOF, issued, deliveredLog>>

\* the Editor Server closes the connection or goes away
ServerClose ==
    /\ readLoop # "not_started"
    /\ ~peerEOF
    /\ peerEOF' = TRUE
    /\ UNCHANGED <<lifecycleVars, clients, netVars, editorVars, requestID, connected, connOpen,
                   pending, outputBuffer, readLoop, dispatch, pc, reqId, chanBuf,
                   result, ctxDone, fdmu, wire, incoming, framesSent, issued,
                   deliveredLog>>

\* one step of the goroutine running call k
CallStep(k) ==
    \/ SendNextID(k) \/ SendRegister(k) \/ SendWriteBegin(k) \/ SendWriteEnd(k)
    \/ SendRecv(k) \/ SendCtxDone(k) \/ SendTimeout(k) \/ SendDefer(k)

\* no server started, no connection made
IdleServer ==
    /\ server_fd = [i \in Instances |-> NoFd]
    /\ socket_path = [i \in Instances |-> NoPath]
    /\ owns_socket = [i \in Instances |-> FALSE]
    /\ spc = [i \in Instances |-> "idle"]
    /\ startOutcome = [i \in Instances |-> "none"]
    /\ fs = [p \in Paths |-> NoFile]
    /\ sockState = [s \in Socks |-> "unused"]
    /\ sockAddr = [s \in Socks |-> NoPath]
    /\ sockCreator = [s \in Socks |-> "nobody"]
    /\ nextSock = 1
    /\ clients = [i \in Instances |-> <<>>]
    /\ connPhase = [c \in Conns |-> "none"]
    /\ peerOpen = [c \in Conns |-> FALSE]
    /\ backlog = <<>>
    /\ toServer = [c \in Conns |-> <<>>]
    /\ toClient = [c \in Conns |-> <<>>]
    /\ sent = [c \in Conns |-> <<>>]
    /\ handed = [c \in Conns |-> <<>>]
    /\ lastRead = [c \in Conns |-> 0]

InitAdapter ==
    /\ InitClient
    /\ IdleEditor
    /\ IdleServer

NextAdapter ==
    \/ Connect
    \/ Close
    \/ \E k \in Calls : SendCheck(k)
    \/ \E k \in Calls : SendNextID(k)
    \/ \E k \in Calls : SendRegister(k)
    \/ \E k \in Calls : SendWriteBegin(k)
    \/ \E k \in Calls : SendWriteEnd(k)
    \/ \E k \in Calls : SendRecv(k)
    \/ \E k \in Calls : SendCtxDone(k)
    \/ \E k \in Calls : SendTimeout(k)
    \/ \E k \in Calls : SendDefer(k)
    \/ \E k \in Calls : CtxCancel(k)
    \/ ReadLoopExit
    \/ ReadFrame
    \/ DispatchSend
    \/ \E f \in Frames : ServerSend(f)
    \/ ServerClose

SpecAdapter == InitAdapter /\ [][NextAdapter]_vars

\* the Go scheduler runs every runnable goroutine and timers fire: a call
\* that can take a step of its own eventually takes one
SpecAdapterFair ==
    InitAdapter /\ [][NextAdapter]_vars /\ \A k \in Calls : WF_vars(CallStep(k))

(***************************************************************************)
(* Correlator properties                                                   *)
(***************************************************************************)

Range(q) == {q[n] : n \in 1..Len(q)}

NoDuplicates(q) == \A a, b \in 1..Len(q) : a # b => q[a] # q[b]

\* C2: no request id has more than one frame handed to a waiter; a frame is
\* handed over only for an id some call was given; and what sits in a call's
\* channel, or was returned to it, is the frame of its own id, so a duplicate
\* or unmatched frame changes nothing for the other waiters.
C2_AtMostOneReplyPerId ==
    /\ NoDuplicates(deliveredLog)
    /\ Range(deliveredLog) \subseteq Range(issued)
    /\ \A k \in Calls :
          /\ chanBuf[k] # <<>> => chanBuf[k] = <<reqId[k]>>
          /\ result[k].kind = "reply" => result[k].id = reqId[k]

\* a reply was delivered and a later frame with the same id (here 1, then 1.5
\* or 1 again) was scanned and dropped
C2_Witness ==
    /\ framesSent = 2
    /\ incoming = <<>>
    /\ readLoop = "scan"
    /\ deliveredLog = <<1>>

\* C3: the ids nextID has returned are strictly increasing in the order of the
\* calls, so no two sendRequest calls, concurrent or not, hold the same id.
C3_IdsStrictlyIncreasing ==
    /\ \A a, b \in 1..Len(issued) : a < b => issued[a] < issued[b]
    /\ \A j, k \in Calls :
          (j # k /\ reqId[j] # 0 /\ reqId[k] # 0) => reqId[j] # reqId[k]

\* two calls are between nextID() and registration at the same time
C3_Witness ==
    \E j, k \in Calls :
        /\ j # k
        /\ pc[j] = "register"
        /\ pc[k] = "register"

\* C4: on the socket every request frame is contiguous: the first part of a
\* frame is followed by the rest of the same frame, never by bytes of another.
C4_FramesNotInterleaved ==
    \A n \in 1..Len(wire) :
        /\ (wire[n].part = 1 /\ n < Len(wire))
              => wire[n + 1] = [call |-> wire[n].call, part |-> 2]
        /\ wire[n].part = 2
              => (n > 1 /\ wire[n - 1] = [call |-> wire[n].call, part |-> 1])

\* one call is in the middle of its write while another is ready to write
C4_Witness ==
    \E j, k \in Calls :
        /\ j # k
        /\ pc[j] = "writing"
        /\ pc[k] = "write"

\* C5: when the read loop ends because the connection is lost, every call
\* waiting for its reply is failed with a cancellation at that step.
C5_WaitersFailedOnConnectionLoss ==
    [][(readLoop = "scan" /\ readLoop' = "exited" /\ connOpen)
         => \A k \in Calls :
               pc[k] = "wait"
               => /\ pc'[k] \in {"defer", "done"}
                  /\ result'[k].kind = "cancelled"]_vars

C7_PendingOnlyInFlight ==
    /\ \A id \in DOMAIN pending :
          \E k \in Calls :
              /\ reqId[k] = id
              /\ pc[k] \in {"write", "writing", "wait", "defer"}
    /\ \A k \in Calls : pc[k] = "done" => reqId[k] \notin DOMAIN pending

\* both calls have returned, one by reply and one without, and the map is empty
C7_Witness ==
    \E j, k \in Calls :
        /\ pc[j] = "done" /\ result[j].kind = "reply"
        /\ pc[k] = "done" /\ result[k].kind \in {"timeout", "cancelled", "write_error"}
        /\ pending = NoPending

\* the scene state as one record, so that the handlers of one frame compose
Scene ==
    [now |-> now, is_playing |-> is_playing, paused |-> paused,
     debugError |-> debugError, playOrigin |-> playOrigin,
     launchSeq |-> launchSeq, lastTimeout |-> lastTimeout,
     replaced |-> replaced,
     launchTime |-> launchTime, earlyStop |-> earlyStop,
     stopRequested |-> stopRequested, stopReply |-> stopReply,
     timerEnded |-> timerEnded,
     auto_stop_active |-> auto_stop_active,
     auto_stop_timeout |-> auto_stop_timeout, armedFor |-> armedFor,
     mcp_launch_id |-> mcp_launch_id, was_playing |-> was_playing,
     timers |-> timers, pending_run |-> pending_run,
     autoStopped |-> autoStopped, runReplies |-> runReplies, rc |-> rc]

SetScene(s) ==
    /\ now' = s.now
    /\ is_playing' = s.is_playing
    /\ paused' = s.paused
    /\ debugError' = s.debugError
    /\ playOrigin' = s.playOrigin
    /\ launchSeq' = s.launchSeq
    /\ lastTimeout' = s.lastTimeout
    /\ replaced' = s.replaced
    /\ launchTime' = s.launchTime
    /\ earlyStop' = s.earlyStop
    /\ stopRequested' = s.stopRequested
    /\ stopReply' = s.stopReply
    /\ timerEnded' = s.timerEnded
    /\ auto_stop_active' = s.auto_stop_active
    /\ auto_stop_timeout' = s.auto_stop_timeout
    /\ armedFor' = s.armedFor
    /\ mcp_launch_id' = s.mcp_launch_id
    /\ was_playing' = s.was_playing
    /\ timers' = s.timers
    /\ pending_run' = s.pending_run
    /\ autoStopped' = s.autoStopped
    /\ runReplies' = s.runReplies
    /\ rc' = s.rc

\* an editor that ignores a play call while a scene is playing
PlayIgnoredWhilePlaying(s, origin) ==
    IF s.is_playing THEN s
    ELSE [s EXCEPT !.is_playing = TRUE, !.paused = FALSE, !.debugError = FALSE,
                   !.playOrigin = origin]

\* EditorInterface::play_main_scene / play_custom_scene / play_current_scene:
\* a scene that is playing is replaced; a new debugger session starts
PlayScene(s, origin) ==
    [s EXCEPT !.is_playing = TRUE, !.paused = FALSE, !.debugError = FALSE,
              !.playOrigin = origin]

\* EditorInterface::stop_playing_scene
StopPlaying(s) ==
    [s EXCEPT !.is_playing = FALSE, !.paused = FALSE, !.playOrigin = 0]

\* history: a stop by the user or by a stop_scene request; it is early for the
\* launch whose scene is playing when the grace window has not elapsed
NoteManualStop(s) ==
    IF s.playOrigin \in Launches /\ s.now < s.launchTime + GraceMs
      THEN [s EXCEPT !.earlyStop[s.playOrigin] = TRUE]
      ELSE s

\* history: a stop_scene request is handled; the flag is reset by the next launch
NoteStopRequest(s) ==
    [s EXCEPT !.stopRequested = TRUE]

\* history: the result a stop_scene request was answered with in state s
NoteStopReply(s1, s, reply) ==
    [s1 EXCEPT !.stopReply = [any |-> TRUE, before |-> s.is_playing,
                              has_was_playing |-> reply.has_was_playing,
                              was_playing |-> reply.was_playing]]

\* handle_stop_scene: make_result(id, {"success":true,"action":"stop_scene"})
StopSceneResult == [has_was_playing |-> FALSE, was_playing |-> FALSE]

\* _stop_scene: _send_result(ws, id, {"success": true, "was_playing": was_playing})
AddonStopSceneResult(playing) ==
    [has_was_playing |-> TRUE, was_playing |-> playing]

\* history: a run_* request is being handled, launch number n
NoteLaunch(s, n, timeout) ==
    [s EXCEPT !.launchSeq = n, !.lastTimeout = timeout, !.launchTime = s.now,
              !.stopRequested = FALSE, !.stopReply = NoStopReply]

\* history: the scene that was playing in s when a run request was handled
NoteReplaced(s1, s) ==
    [s1 EXCEPT !.replaced = IF s.is_playing THEN s.playOrigin ELSE -1]

\* history: the auto-stop timer armed for launch t stops the playing scene
NoteAutoStop(s, t) ==
    [s EXCEPT !.autoStopped =
        [scene |-> s.playOrigin, timer |-> t, latest |-> s.launchSeq,
         timeout |-> s.lastTimeout,
         afterStopRequest |-> (t = s.launchSeq /\ s.stopRequested)],
              !.timerEnded = IF s.playOrigin = t /\ ~s.debugError
                               THEN @ \cup {t} ELSE @]

\* ---- the C++ extension

\* a launch callback that leaves an armed timer alone when the new launch has
\* no positive timeout
ArmTimerKeepsOld(s, n, timeout) ==
    IF timeout > 0
      THEN [s EXCEPT !.auto_stop_timeout = timeout, !.auto_stop_active = TRUE,
                     !.armedFor = n]
      ELSE s

\* the scene launch callback set in GodotPeekPlugin's constructor
ArmTimer(s, n, timeout) ==
    IF timeout > 0
      THEN [s EXCEPT !.auto_stop_timeout = timeout, !.auto_stop_active = TRUE,
                     !.armedFor = n]
      ELSE [s EXCEPT !.auto_stop_active = FALSE, !.armedFor = 0]

\* handle_run_main_scene / handle_run_scene / handle_run_current_scene: play,
\* schedule_auto_stop, reply with the acknowledgement
HandleRunScene(s, req) ==
    LET n == s.launchSeq + 1
        s1 == NoteReplaced(NoteLaunch(PlayScene(s, n), n, req.timeout), s)
        s2 == ArmTimer(s1, n, req.timeout)
    IN  IF req.call = 1
          THEN [s2 EXCEPT !.rc = [s2.rc EXCEPT !.pc = "acked", !.launch = n,
                                               !.ackTime = s.now]]
          ELSE s2

\* handle_stop_scene: stop_playing_scene and reply; the reply ends the
\* Adapter's StopScene call, the last step of checkStartupErrors after a crash
HandleStopScene(s, req) ==
    LET s0 == StopPlaying(NoteStopRequest(IF req.call = 0 THEN NoteManualStop(s) ELSE s))
        s1 == NoteStopReply(s0, s, StopSceneResult)
    IN  IF req.call = 1
          THEN [s1 EXCEPT !.runReplies = Append(@, [launch |-> s.rc.launch,
                                                   error_detected |-> TRUE]),
                          !.rc = IdleCall]
          ELSE s1

\* handle_get_debugger_state, as the Adapter reads it: Paused and IsPlaying
HandleGetDebuggerState(s, req) ==
    IF req.call = 1
      THEN [s EXCEPT !.rc = [s.rc EXCEPT !.pc = "got_state", !.paused = s.paused,
                                         !.isPlaying = s.is_playing]]
      ELSE s

\* MessageHandler::handle: route by method
HandleRequest(s, req) ==
    CASE req.method = "run" -> HandleRunScene(s, req)
      [] req.method = "stop" -> HandleStopScene(s, req)
      [] OTHER -> HandleGetDebuggerState(s, req)

RECURSIVE HandleAll(_, _)
\* SocketServer::poll: every request line that has arrived, in order
HandleAll(s, reqs) ==
    IF reqs = <<>> THEN s ELSE HandleAll(HandleRequest(s, Head(reqs)), Tail(reqs))

\* a countdown that stays armed after it has run out
AutoStopStaysArmed(s, delta) ==
    IF ~s.auto_stop_active
      THEN s
      ELSE LET left == s.auto_stop_timeout - delta
               s1 == [s EXCEPT !.auto_stop_timeout = left]
           IN  IF left > 0
                 THEN s1
                 ELSE IF s1.is_playing
                        THEN StopPlaying(NoteAutoStop(s1, s1.armedFor))
                        ELSE s1

\* GodotPeekPlugin::_process, lines 136-147: the countdown
AutoStopCheck(s, delta) ==
    IF ~s.auto_stop_active
      THEN s
      ELSE LET left == s.auto_stop_timeout - delta
               s1 == [s EXCEPT !.auto_stop_timeout = left]
           IN  IF left > 0
                 THEN s1
                 ELSE LET s2 == [s1 EXCEPT !.auto_stop_active = FALSE]
                      IN  IF s2.is_playing
                            THEN StopPlaying(NoteAutoStop(s2, s2.armedFor))
                            ELSE s2

\* GodotPeekPlugin::_process: the countdown, then poll
PluginProcess ==
    /\ impl = "extension"
    /\ now < MaxTime * FrameMs
    /\ LET s1 == AutoStopCheck([Scene EXCEPT !.autoStopped = NoAutoStop], FrameMs)
           s2 == HandleAll(s1, inbox)
       IN  SetScene([s2 EXCEPT !.now = now + FrameMs])
    /\ inbox' = <<>>
    /\ UNCHANGED <<impl, otherThanScene>>

\* ---- the Adapter's RunMainScene / RunScene / RunCurrentScene tool call

\* run requests handled or on their way
CanLaunch ==
    launchSeq + Cardinality({i \in 1..Len(inbox) : inbox[i].method = "run"}) < MaxLaunch

\* checkStartupErrors, line 883: the check is skipped
SkipsCheck(timeout) == timeout > 0 /\ timeout < GraceMs

\* Client.RunMainScene up to sendRequest
GoRunScene(t) ==
    /\ impl = "extension"
    /\ rc.pc = "idle"
    /\ CanLaunch
    /\ Len(inbox) < MaxInbox
    /\ inbox' = Append(inbox, [method |-> "run", timeout |-> t, call |-> 1])
    /\ rc' = [IdleCall EXCEPT !.pc = "run_sent", !.timeout = t]
    /\ UNCHANGED otherThanScene
    /\ UNCHANGED <<impl, now, is_playing, paused, debugError, playOrigin, launchSeq,
                   lastTimeout, replaced, launchTime, earlyStop, stopRequested, stopReply, timerEnded,
                   auto_stop_active, auto_stop_timeout, armedFor, mcp_launch_id,
                   was_playing, timers, pending_run, autoStopped, runReplies>>

\* checkStartupErrors returns at once: the acknowledgement is the result
GoSkipCheck ==
    /\ rc.pc = "acked"
    /\ SkipsCheck(rc.timeout)
    /\ runReplies' = Append(runReplies, [launch |-> rc.launch, error_detected |-> FALSE])
    /\ rc' = IdleCall
    /\ UNCHANGED otherThanScene
    /\ UNCHANGED <<impl, now, is_playing, paused, debugError, playOrigin, launchSeq,
                   lastTimeout, replaced, launchTime, earlyStop, stopRequested, stopReply, timerEnded, inbox,
                   auto_stop_active, auto_stop_timeout, armedFor, mcp_launch_id,
                   was_playing, timers, pending_run, autoStopped>>

\* checkStartupErrors: the 1500 ms sleep is over, GetDebuggerState is sent
GoWake ==
    /\ rc.pc = "acked"
    /\ ~SkipsCheck(rc.timeout)
    /\ now >= rc.ackTime + GraceMs
    /\ Len(inbox) < MaxInbox
    /\ inbox' = Append(inbox, [method |-> "state", timeout |-> 0, call |-> 1])
    /\ rc' = [rc EXCEPT !.pc = "state_sent"]
    /\ UNCHANGED otherThanScene
    /\ UNCHANGED <<impl, now, is_playing, paused, debugError, playOrigin, launchSeq,
                   lastTimeout, replaced, launchTime, earlyStop, stopRequested, stopReply, timerEnded,
                   auto_stop_active, auto_stop_timeout, armedFor, mcp_launch_id,
                   was_playing, timers, pending_run, autoStopped, runReplies>>

\* checkStartupErrors, lines 894-922: paused means a runtime error (report it
\* and stop the game), not playing means the game did not start, otherwise
\* the game runs normally
GoDecide ==
    /\ rc.pc = "got_state"
    /\ IF rc.paused
         THEN /\ Len(inbox) < MaxInbox
              /\ inbox' = Append(inbox, [method |-> "stop", timeout |-> 0, call |-> 1])
              /\ rc' = [rc EXCEPT !.pc = "stop_sent", !.error_detected = TRUE]
              /\ UNCHANGED runReplies
         ELSE /\ runReplies' = Append(runReplies,
                     [launch |-> rc.launch, error_detected |-> ~rc.isPlaying])
              /\ rc' = IdleCall
              /\ UNCHANGED inbox
    /\ UNCHANGED otherThanScene
    /\ UNCHANGED <<impl, now, is_playing, paused, debugError, playOrigin, launchSeq,
                   lastTimeout, replaced, launchTime, earlyStop, stopRequested, stopReply, timerEnded,
                   auto_stop_active, auto_stop_timeout, armedFor, mcp_launch_id,
                   was_playing, timers, pending_run, autoStopped>>

\* ---- the GDScript addon

\* a check that leaves the record in place
KeepPendingRun(p) == p

\* _check_pending_run, line 719: _pending_run = {}
ClearPendingRun(p) == NoRun

\* _schedule_auto_stop: nothing for a timeout <= 0, otherwise a SceneTreeTimer
\* whose callback holds the launch id captured now
ScheduleAutoStop(s, n, timeout) ==
    IF timeout <= 0
      THEN s
      ELSE [s EXCEPT !.timers = @ \cup {[captured |-> s.mcp_launch_id,
                                        remaining |-> timeout, launch |-> n]}]

\* _run_main_scene / _run_scene / _run_current_scene
AddonRunScene(s, req) ==
    LET n == s.launchSeq + 1
        s0 == IF s.is_playing THEN StopPlaying(s) ELSE s
        s1 == [s0 EXCEPT !.mcp_launch_id = @ + 1]
        s2 == NoteReplaced(NoteLaunch(PlayScene(s1, n), n, req.timeout), s)
        s3 == ScheduleAutoStop(s2, n, req.timeout)
    IN  [s3 EXCEPT !.pending_run = [launch |-> n, check_time |-> s.now + GraceMs]]

\* _stop_scene
AddonStopScene(s, req) ==
    LET s1 == NoteStopReply(NoteStopRequest(s), s, AddonStopSceneResult(s.is_playing))
    IN  IF s1.is_playing THEN StopPlaying(NoteManualStop(s1)) ELSE s1

\* _handle_message: route by method (the addon has no get_debugger_state)
AddonHandleMessage(s, req) ==
    CASE req.method = "run" -> AddonRunScene(s, req)
      [] req.method = "stop" -> AddonStopScene(s, req)
      [] OTHER -> s

RECURSIVE AddonProcessClients(_, _)
\* _process_clients: every packet that has arrived, in order
AddonProcessClients(s, reqs) ==
    IF reqs = <<>>
      THEN s
      ELSE AddonProcessClients(AddonHandleMessage(s, Head(reqs)), Tail(reqs))

\* _check_pending_run: once check_time has come the record is cleared, the
\* debugger panels are read, a scene with an error is stopped and the result
\* is sent to the requester
CheckPendingRun(s) ==
    IF s.pending_run = NoRun \/ s.now < s.pending_run.check_time
      THEN s
      ELSE LET err == s.debugError
               s1 == [s EXCEPT !.pending_run = ClearPendingRun(s.pending_run)]
               s2 == IF err THEN StopPlaying(s1) ELSE s1
           IN  [s2 EXCEPT !.runReplies =
                   Append(@, [launch |-> s.pending_run.launch, error_detected |-> err])]

\* _check_play_state: a play-to-stop transition seen between two frames bumps
\* the launch id
CheckPlayState(s) ==
    LET s1 == IF s.was_playing /\ ~s.is_playing
                THEN [s EXCEPT !.mcp_launch_id = @ + 1]
                ELSE s
    IN  [s1 EXCEPT !.was_playing = s.is_playing]

\* the scene tree runs its timers; _on_auto_stop_timeout(launch_id) stops the
\* scene only if the id is the current one and a scene is playing
ProcessTimers(s, delta) ==
    LET fired == {t \in s.timers : t.remaining - delta <= 0}
        rest == {[t EXCEPT !.remaining = @ - delta] : t \in s.timers \ fired}
        hit == {t \in fired : t.captured = s.mcp_launch_id}
        s1 == [s EXCEPT !.timers = rest]
    IN  IF hit # {} /\ s1.is_playing
          THEN StopPlaying(NoteAutoStop(s1, (CHOOSE t \in hit : TRUE).launch))
          ELSE s1

\* one frame of the addon: _process, then the scene tree's timers
AddonProcess ==
    /\ impl = "addon"
    /\ now < MaxTime * FrameMs
    /\ LET s1 == AddonProcessClients([Scene EXCEPT !.autoStopped = NoAutoStop], inbox)
           s2 == CheckPendingRun(s1)
           s3 == CheckPlayState(s2)
           s4 == ProcessTimers(s3, FrameMs)
       IN  SetScene([s4 EXCEPT !.now = now + FrameMs])
    /\ inbox' = <<>>
    /\ UNCHANGED <<impl, otherThanScene>>

\* ---- the other clients, the user and the game

\* a client sends run_main_scene / run_scene / run_current_scene
RunRequest(t) ==
    /\ CanLaunch
    /\ Len(inbox) < MaxInbox
    /\ inbox' = Append(inbox, [method |-> "run", timeout |-> t, call |-> 0])
    /\ SetScene(Scene)
    /\ UNCHANGED <<impl, otherThanScene>>

\* a client sends stop_scene
StopRequest ==
    /\ launchSeq > 0
    /\ Len(inbox) < MaxInbox
    /\ inbox' = Append(inbox, [method |-> "stop", timeout |-> 0, call |-> 0])
    /\ SetScene(Scene)
    /\ UNCHANGED <<impl, otherThanScene>>

\* the user starts a scene from the editor
UserPlay ==
    /\ launchSeq > 0
    /\ ~is_playing
    /\ SetScene(PlayScene(Scene, 0))
    /\ UNCHANGED <<impl, inbox, otherThanScene>>

\* the user stops the scene from the editor
UserStop ==
    /\ is_playing
    /\ SetScene(StopPlaying(NoteManualStop(Scene)))
    /\ UNCHANGED <<impl, inbox, otherThanScene>>

\* the game ends by itself
GameExit ==
    /\ is_playing
    /\ SetScene(StopPlaying(Scene))
    /\ UNCHANGED <<impl, inbox, otherThanScene>>

\* the game hits a runtime error: the debugger breaks and shows the error
GameCrash ==
    /\ is_playing
    /\ ~paused
    /\ SetScene([Scene EXCEPT !.paused = TRUE, !.debugError = TRUE])
    /\ UNCHANGED <<impl, inbox, otherThanScene>>

NextScene ==
    \/ PluginProcess
    \/ AddonProcess
    \/ \E t \in Timeouts : GoRunScene(t)
    \/ GoSkipCheck
    \/ GoWake
    \/ GoDecide
    \/ \E t \in Timeouts : RunRequest(t)
    \/ StopRequest
    \/ UserPlay
    \/ UserStop
    \/ GameExit
    \/ GameCrash

\* either server may be the one installed; the rest of the system is idle
InitScene ==
    /\ impl \in {"extension", "addon"}
    /\ IdleScene
    /\ IdleInspect
    /\ IdleOutput
    /\ IdleRouter
    /\ IdleOverrides
    /\ IdleStartup
    /\ IdleCapture
    /\ IdleFinder
    /\ IdleServer
    /\ InitClient

SpecScene == InitScene /\ [][NextScene]_vars

(***************************************************************************)
(* Scene control properties                                                *)
(***************************************************************************)

\* C11: whenever an auto-stop timer stops a scene, the scene it stops is the
\* one started by the launch the timer was armed for, never a scene that was
\* started later (by hand, after the first scene ended).
C11_TimerStopsOnlyItsOwnLaunch ==
    autoStopped # NoAutoStop => autoStopped.scene = autoStopped.timer

\* C12: a timer armed by a launch never stops a scene once a stop_scene
\* request has been handled after that launch.
C12_StopSceneCancelsTimer ==
    autoStopped # NoAutoStop => ~autoStopped.afterStopRequest

\* C13: a timer that can still stop a scene is the one armed by the latest
\* launch, runs on that launch's positive timeout, and no auto-stop is ever
\* done by the timer of an earlier launch or for a launch without a positive
\* timeout.
C13_NewLaunchReplacesTimer ==
    /\ auto_stop_active
         => (armedFor = launchSeq /\ lastTimeout > 0 /\ auto_stop_timeout <= lastTimeout)
    /\ \A t \in timers :
          t.captured = mcp_launch_id
            => (t.launch = launchSeq /\ lastTimeout > 0 /\ t.remaining <= lastTimeout)
    /\ autoStopped # NoAutoStop
         => (autoStopped.timer = autoStopped.latest /\ autoStopped.timeout > 0)

\* the second launch has replaced the first and its own timer has stopped its
\* scene
C13_Witness ==
    /\ launchSeq = 2
    /\ autoStopped # NoAutoStop
    /\ autoStopped.timer = 2
    /\ autoStopped.scene = 2

\* C14: no launch has more than one final run-scene reply: its pending-launch
\* record is finalised at most once and its requester gets at most one result.
C14_RunReplyAtMostOnce ==
    \A a, b \in 1..Len(runReplies) :
        a # b => runReplies[a].launch # runReplies[b].launch

\* the addon has finalised a record and has run two more frames since
C14_Witness ==
    /\ impl = "addon"
    /\ launchSeq = 1
    /\ runReplies # <<>>
    /\ pending_run = NoRun
    /\ now >= launchTime + GraceMs + 2 * FrameMs

\* C15: a launch whose scene was stopped manually before the grace window had
\* elapsed ends with the success acknowledgement, not with a crash report.
C15_EarlyStopKeepsAck ==
    \A a \in 1..Len(runReplies) :
        earlyStop[runReplies[a].launch] => ~runReplies[a].error_detected

(***************************************************************************)
(* The Output panel and its read cursor (MessageHandler::handle_get_output *)
(* and EditorControlFinder::last_output_length).                           *)
(***************************************************************************)

\* String::substr(from): the text from index from (0-based) to the end
Substr(text, from) == SubSeq(text, from + 1, Len(text))

\* a handler that returns the whole text whatever new_only says
OutputTextWhole(full_text, cursor, new_only) == full_text

\* handle_get_output, lines 242-252: the text that is returned
OutputText(full_text, cursor, new_only) ==
    IF new_only
      THEN IF cursor < Len(full_text) THEN Substr(full_text, cursor) ELSE <<>>
      ELSE full_text

\* a handler that never moves the cursor
CursorAfterStays(cursor, full_length, clear) == cursor

\* handle_get_output, lines 254-257: the cursor after the call
CursorAfter(cursor, full_length, clear) ==
    IF clear THEN full_length ELSE cursor

\* handle_get_output: an error when the Output dock is not found, otherwise
\* the text, its length and the panel's length; the cursor moves on clear
GetOutput(new_only, clear, found) ==
    /\ IF ~found
         THEN /\ outReply' = [NoOutputReply EXCEPT !.new_only = new_only,
                                                  !.clear = clear,
                                                  !.before = last_output_length,
                                                  !.text = panel]
              /\ UNCHANGED last_output_length
         ELSE LET full_text == panel
                  full_length == Len(full_text)
                  output_text == OutputText(full_text, last_output_length, new_only)
              IN  /\ last_output_length' = CursorAfter(last_output_length, full_length, clear)
                  /\ outReply' = [ok |-> TRUE, new_only |-> new_only, clear |-> clear,
                                  output |-> output_text, length |-> Len(output_text),
                                  total_length |-> full_length,
                                  before |-> last_output_length, text |-> full_text]
    /\ UNCHANGED panel
    /\ UNCHANGED otherThanOutput

\* the editor or the game prints a character to the Output panel
PanelAppend(ch) ==
    /\ Len(panel) < MaxPanel
    /\ panel' = Append(panel, ch)
    /\ UNCHANGED <<last_output_length, outReply>>
    /\ UNCHANGED otherThanOutput

\* the Output panel is cleared (by the user, or by the editor when a scene starts)
PanelClear ==
    /\ panel # <<>>
    /\ panel' = <<>>
    /\ UNCHANGED <<last_output_length, outReply>>
    /\ UNCHANGED otherThanOutput

InitOutput ==
    /\ IdleOutput
    /\ impl = "extension"
    /\ IdleScene
    /\ IdleInspect
    /\ IdleRouter
    /\ IdleOverrides
    /\ IdleStartup
    /\ IdleCapture
    /\ IdleFinder
    /\ IdleServer
    /\ InitClient

NextOutput ==
    \/ \E new_only \in BOOLEAN, clear \in BOOLEAN, found \in BOOLEAN :
          GetOutput(new_only, clear, found)
    \/ \E ch \in Chars : PanelAppend(ch)
    \/ PanelClear

SpecOutput == InitOutput /\ [][NextOutput]_vars

\* C18: the output cursor never exceeds the current length of the panel's
\* text, also after the panel has been cleared.
C18_CursorWithinPanel ==
    last_output_length <= Len(panel)

\* C19: a successful get_output reply with new_only carries exactly the text
\* from the cursor to the end of the panel (nothing when the cursor is at or
\* past the end), without new_only the whole text; length is the length of
\* the returned text and total_length that of the whole text.
C19_ReplyIsSuffixOrWhole ==
    outReply.ok =>
        LET t == outReply.text
            c == outReply.before
            rest == IF c <= Len(t) THEN Len(t) - c ELSE 0
        IN  /\ outReply.new_only => outReply.output = [n \in 1..rest |-> t[c + n]]
            /\ ~outReply.new_only => outReply.output = t
            /\ outReply.length = Len(outReply.output)
            /\ outReply.total_length = Len(t)

\* a new_only reply that is a proper, non-empty suffix of the panel
C19_Witness ==
    /\ outReply.ok
    /\ outReply.new_only
    /\ outReply.before > 0
    /\ outReply.output # <<>>
    /\ Len(outReply.output) < outReply.total_length

\* C20: after a get_output with clear the cursor is the total_length of that
\* reply; a get_output without clear leaves the cursor where it was.
C20_ClearMovesCursorToEnd ==
    /\ (outReply.ok /\ outReply.clear) => last_output_length = outReply.total_length
    /\ ~(outReply.ok /\ outReply.clear) => last_output_length = outReply.before

\* the cursor was moved to the end of a non-empty panel and the panel has
\* grown since
C20_Witness ==
    /\ outReply.ok
    /\ outReply.clear
    /\ outReply.total_length > outReply.before
    /\ Len(panel) > last_output_length

(***************************************************************************)
(* Remote scene tree and remote node properties: the handlers of the C++   *)
(* extension and the Adapter's one retry on pending=true.                  *)
(***************************************************************************)

\* EditorControlFinder::get_remote_scene_tree(true): the Remote button is
\* pressed if it is not already
ClickRemote(t) == [t EXCEPT !.pressed = TRUE]

\* a handler that arms the inspection whatever is selected
NeverSelected(selected, target) == FALSE

\* handle_get_remote_node_properties, lines 843-844: selected == target
AlreadySelected(selected, target) == selected = target

\* trigger_remote_inspection: select the item and emit the selection signal;
\* the inspector starts loading the node
TriggerRemoteInspection(t, target) ==
    [t EXCEPT !.selected = target, !.loaded = FALSE,
              !.selectCalls = @ + 1, !.signals = @ + 1]

ErrorReply == [error |-> TRUE, pending |-> FALSE, count |-> 0]
PendingReply == [error |-> FALSE, pending |-> TRUE, count |-> 0]
ResultReply == [error |-> FALSE, pending |-> FALSE, count |-> 1]

\* handle_get_remote_node_properties: the tree after the call and the reply
HandleGetRemoteNodeProperties(t, path) ==
    LET t1 == ClickRemote(t)
    IN  IF ~t1.running
          THEN [tree |-> t1, reply |-> ErrorReply]
          ELSE IF ~t1.populated
            THEN [tree |-> t1, reply |-> PendingReply]
            ELSE IF path \notin Nodes
              THEN [tree |-> t1, reply |-> ErrorReply]
              ELSE IF ~AlreadySelected(t1.selected, path)
                THEN [tree |-> TriggerRemoteInspection(t1, path), reply |-> PendingReply]
                ELSE IF ~t1.loaded
                  THEN [tree |-> t1, reply |-> PendingReply]
                  ELSE [tree |-> t1, reply |-> ResultReply]

\* handle_get_remote_scene_tree: the Remote button is clicked only when the
\* tree has no content; an empty tree after the click is reported as pending
HandleGetRemoteSceneTree(t) ==
    IF t.running /\ t.populated
      THEN [tree |-> t, reply |-> ResultReply]
      ELSE LET t1 == ClickRemote(t)
           IN  IF ~t1.running
                 THEN [tree |-> t1, reply |-> ErrorReply]
                 ELSE [tree |-> t1, reply |-> PendingReply]

\* Client.GetRemoteSceneTree / Client.GetRemoteNodeProperties: first sendRequest
ToolCall(method, path) ==
    /\ tool.pc = "idle"
    /\ toolCalls < MaxTools
    /\ toolCalls' = toolCalls + 1
    /\ ireq' = [method |-> method, path |-> path]
    /\ tool' = [IdleTool EXCEPT !.pc = "wait1", !.method = method, !.path = path,
                                !.sent = 1]
    /\ UNCHANGED rtree
    /\ UNCHANGED otherThanInspect

\* the server handles the request in its next frame and the reply reaches the
\* waiting call; a request may also fail (error reply, timeout)
InspectHandle(fails) ==
    /\ ireq # NoRequest
    /\ LET r == IF fails
                  THEN [tree |-> rtree, reply |-> ErrorReply]
                  ELSE IF ireq.method = "props"
                    THEN HandleGetRemoteNodeProperties(rtree, ireq.path)
                    ELSE HandleGetRemoteSceneTree(rtree)
       IN  /\ rtree' = r.tree
           /\ tool' = [tool EXCEPT !.reply = r.reply,
                                   !.pc = IF tool.pc = "wait1" THEN "got1" ELSE "got2"]
    /\ ireq' = NoRequest
    /\ UNCHANGED toolCalls
    /\ UNCHANGED otherThanInspect

\* a call that sends its request again whatever the first reply says
RetryAlways(reply) == TRUE

\* resp.Error == nil and result.Pending: the request is sent once more
ShouldRetry(reply) == ~reply.error /\ reply.pending

\* the first reply: an error is returned; pending means sleep and send the
\* same request once more; anything else is the result
ToolAfterFirst ==
    /\ tool.pc = "got1"
    /\ IF ShouldRetry(tool.reply)
         THEN /\ ireq' = [method |-> tool.method, path |-> tool.path]
              /\ tool' = [tool EXCEPT !.pc = "wait2", !.sent = 2,
                                      !.firstPending = tool.reply.pending]
         ELSE /\ tool' = [tool EXCEPT !.pc = "done", !.result = tool.reply]
              /\ UNCHANGED ireq
    /\ UNCHANGED <<rtree, toolCalls>>
    /\ UNCHANGED otherThanInspect

\* the second reply is what the call returns, pending or not
ToolAfterSecond ==
    /\ tool.pc = "got2"
    /\ tool' = [tool EXCEPT !.pc = "done", !.result = tool.reply]
    /\ UNCHANGED <<rtree, ireq, toolCalls>>
    /\ UNCHANGED otherThanInspect

\* the tool call has returned; the next one may start
ToolReturn ==
    /\ tool.pc = "done"
    /\ tool' = IdleTool
    /\ UNCHANGED <<rtree, ireq, toolCalls>>
    /\ UNCHANGED otherThanInspect

\* a game starts or stops; with no game the remote tree is gone
GameRuns(on) ==
    /\ rtree.running # on
    /\ rtree' = [rtree EXCEPT !.running = on, !.populated = FALSE,
                              !.selected = "none", !.loaded = FALSE]
    /\ UNCHANGED <<tool, ireq, toolCalls>>
    /\ UNCHANGED otherThanInspect

\* the debugger delivers the remote tree after the Remote button was pressed
TreePopulates ==
    /\ rtree.running
    /\ rtree.pressed
    /\ ~rtree.populated
    /\ rtree' = [rtree EXCEPT !.populated = TRUE]
    /\ UNCHANGED <<tool, ireq, toolCalls>>
    /\ UNCHANGED otherThanInspect

\* the inspector has loaded the selected node's properties
InspectorLoads ==
    /\ rtree.selected # "none"
    /\ ~rtree.loaded
    /\ rtree' = [rtree EXCEPT !.loaded = TRUE]
    /\ UNCHANGED <<tool, ireq, toolCalls>>
    /\ UNCHANGED otherThanInspect

\* the user clicks another item of the remote tree
UserSelects(n) ==
    /\ rtree.populated
    /\ rtree.selected # n
    /\ rtree' = [rtree EXCEPT !.selected = n, !.loaded = FALSE]
    /\ UNCHANGED <<tool, ireq, toolCalls>>
    /\ UNCHANGED otherThanInspect

InitInspect ==
    /\ IdleInspect
    /\ impl = "extension"
    /\ IdleScene
    /\ IdleOutput
    /\ IdleRouter
    /\ IdleOverrides
    /\ IdleStartup
    /\ IdleCapture
    /\ IdleFinder
    /\ IdleServer
    /\ InitClient

NextInspect ==
    \/ \E m \in {"tree", "props"}, p \in NodePaths : ToolCall(m, p)
    \/ \E fails \in BOOLEAN : InspectHandle(fails)
    \/ ToolAfterFirst
    \/ ToolAfterSecond
    \/ ToolReturn
    \/ \E on \in BOOLEAN : GameRuns(on)
    \/ TreePopulates
    \/ InspectorLoads
    \/ \E n \in Nodes : UserSelects(n)

SpecInspect == InitInspect /\ [][NextInspect]_vars

\* C16: a tool call sends at most two requests, the second only after a first
\* reply with pending=true, and it returns the last reply it received, also
\* when that reply is still pending.
C16_AtMostOneRetry ==
    /\ tool.sent <= 2
    /\ tool.sent = 2 => tool.firstPending
    /\ tool.pc = "done" => tool.result = tool.reply

\* a call has returned a second reply that still says pending
C16_Witness ==
    /\ tool.pc = "done"
    /\ tool.sent = 2
    /\ tool.result.pending

\* C17: when get_remote_node_properties is handled for a node that is already
\* the selected item of the populated remote tree, the handler does not select
\* it again and emits no selection signal; the reply is the inspector's
\* content (pending only while the inspector has nothing to show).
C17_NoRearmWhenSelected ==
    [][(/\ ireq.method = "props"
        /\ ireq' = NoRequest
        /\ tool'.reply # ErrorReply
        /\ rtree.running /\ rtree.populated
        /\ rtree.selected = ireq.path)
         => /\ rtree'.selectCalls = rtree.selectCalls
            /\ rtree'.signals = rtree.signals
            /\ rtree'.selected = rtree.selected
            /\ tool'.reply = IF rtree.loaded THEN ResultReply ELSE PendingReply]_vars

\* the retry of a node-properties call found its node selected by the first
\* request and returned the properties without a second selection
C17_Witness ==
    /\ tool.method = "props"
    /\ tool.sent = 2
    /\ tool.pc = "got2"
    /\ tool.reply = ResultReply
    /\ rtree.selectCalls = 1
    /\ rtree.signals = 1

(***************************************************************************)
(* Framing: request lines and the order they are handled in                *)
(***************************************************************************)

\* the bytes of q before its last newline, cut into lines at the newlines
RECURSIVE SplitLines(_)
SplitLines(q) ==
    LET nls == {k \in 1..Len(q) : q[k] = NL} IN
    IF nls = {} THEN <<>>
    ELSE LET pos == CHOOSE k \in nls : \A j \in nls : k <= j
         IN  <<SubSeq(q, 1, pos - 1)>> \o SplitLines(SubSeq(q, pos + 1, Len(q)))

\* the non-empty lines among them
NonEmptyLines(q) == SelectSeq(SplitLines(q), LAMBDA l : l # <<>>)

IsPrefix(p, q) == Len(p) <= Len(q) /\ p = SubSeq(q, 1, Len(p))

\* the bytes of connection c the server has read so far
Consumed(c) == SubSeq(sent[c], 1, Len(sent[c]) - Len(toServer[c]))

RequestLines(c) == {<<100 + c>>, <<100 + c, 100 + c>>}

\* number of newlines in q
CountNL(q) == Cardinality({n \in 1..Len(q) : q[n] = NL})

\* an adapter writes one whole frame, request and newline, in one write
\* (sendRequest: conn.Write(append(data, '\n')))
ClientWriteLine(c, line) ==
    /\ connPhase[c] \in {"backlog", "accepted"}
    /\ peerOpen[c]
    /\ CountNL(sent[c]) < MaxLines
    /\ toServer' = [toServer EXCEPT ![c] = @ \o line \o <<NL>>]
    /\ sent' = [sent EXCEPT ![c] = @ \o line \o <<NL>>]
    /\ UNCHANGED <<adapterVars, editorVars, lifecycleVars, clients, connPhase, peerOpen,
                   backlog, toClient, handed, lastRead>>

NextFraming ==
    \/ \E i \in Instances : Poll(i)
    \/ \E c \in Conns : ClientConnect(c)
    \/ \E c \in Conns : \E line \in RequestLines(c) : ClientWriteLine(c, line)
    \/ \E c \in Conns : ClientClose(c)

SpecFraming == InitTransport /\ [][NextFraming]_vars

\* C21: on every connection the requests handed to the router are, in order,
\* the first of the requests the adapter wrote, and the replies written back
\* are, in order, the replies to the first of those requests; this includes
\* requests that arrived together in one read.
C21_RequestsAndRepliesInOrder ==
    \A c \in Conns :
        /\ IsPrefix(handed[c], NonEmptyLines(sent[c]))
        /\ \E n \in 0..Len(handed[c]) :
              toClient[c] = ReplyLines(SubSeq(NonEmptyLines(sent[c]), 1, n))

\* one poll read two different requests from a connection and both were
\* answered
C21_Witness ==
    \E c \in Conns :
        /\ lastRead[c] = 2
        /\ Len(handed[c]) = 2
        /\ handed[c][1] # handed[c][2]
        /\ toClient[c] = ReplyLines(handed[c])

(***************************************************************************)
(* The router (MessageHandler::handle) and the breakpoint cache            *)
(* (GodotPeekDebuggerPlugin::set_breakpoint, clear_all_breakpoints)        *)
(***************************************************************************)

\* the "id" member of a request; numbers are kept in tenths so that 7, 7.0
\* and 7.5 are different values
IdValues ==
    {[kind |-> "absent", v10 |-> 0],
     [kind |-> "int", v10 |-> 70],
     [kind |-> "float", v10 |-> 70],
     [kind |-> "float", v10 |-> 75],
     [kind |-> "string", v10 |-> 70]}

\* the "method" member: absent, not a string, or a method name
Methods == {"absent", "nonstring", "ping", "set_breakpoint", "clear_breakpoints", "bogus"}
RoutedMethods == {"ping", "set_breakpoint", "clear_breakpoints"}

NoParams == [path |-> "", line |-> 0, enabled |-> FALSE, complete |-> FALSE]

\* the "params" member of a set_breakpoint request
BreakpointParams ==
    [path : ScriptPaths, line : BpLines, enabled : BOOLEAN, complete : {TRUE}]
        \cup {NoParams}

\* the lines a client may send: text that is not JSON, or a JSON value with
\* these members
JsonRequests ==
    [json : {FALSE}, id : IdValues, method : {"absent"}, params : {NoParams}]
        \cup [json : {TRUE}, id : IdValues, method : Methods \ {"set_breakpoint"},
              params : {NoParams}]
        \cup [json : {TRUE}, id : IdValues, method : {"set_breakpoint"},
              params : BreakpointParams]

\* a router that takes every line for JSON
NeverDiscarded(req) == FALSE

\* json::parse(message, nullptr, false).is_discarded()
IsDiscarded(req) == ~req.json

\* handle, lines 37-45: int64_t id = 0, replaced by an integer id or by a
\* floating-point id cast to int64_t
ExtractId(idv) ==
    IF idv.kind = "int" THEN idv.v10 \div 10
    ELSE IF idv.kind = "float" THEN idv.v10 \div 10
    ELSE 0

\* the "id" member of a reply: an integer, or null
IntId(n) == [kind |-> "int", v10 |-> 10 * n]
NullId == [kind |-> "null", v10 |-> 0]

\* make_error(id, code, message)
MakeError(id, code) == [id |-> IntId(id), error |-> TRUE, code |-> code]

\* make_result(id, result_json)
MakeResult(id) == [id |-> IntId(id), error |-> FALSE, code |-> 0]

\* a cache that never drops the entry it is about to replace
EraseNothing(cache, path, line) == cache

\* set_breakpoint, lines 70-77: remove the existing entries for path:line
EraseEntry(cache, path, line) ==
    SelectSeq(cache, LAMBDA bp : ~(bp.path = path /\ bp.line = line))

\* GodotPeekDebuggerPlugin::set_breakpoint: the cache and the editor's
\* CodeEdit breakpoints after the call; loads says whether the script loads
\* and its editor is a CodeEdit
SetBreakpoint(bps, path, line, enabled, loads) ==
    LET erased == EraseEntry(bps.cache, path, line)
        cache == IF enabled
                   THEN Append(erased, [path |-> path, line |-> line])
                   ELSE erased
        edit == IF ~loads \/ path = ""
                  THEN bps.edit
                  ELSE IF enabled
                    THEN bps.edit \cup {<<path, line>>}
                    ELSE bps.edit \ {<<path, line>>}
    IN  [cache |-> cache, edit |-> edit]

\* what a read of a vector slot past the end may yield: an entry that was
\* there before, or a moved-from one
StaleEntries == [path : ScriptPaths \cup {""}, line : BpLines]

\* clear_all_breakpoints, lines 125-128: the range-for runs from begin() to
\* the end() taken before the first call, while every set_breakpoint call
\* erases from the same vector; slot k is read from the vector as it is then,
\* and a slot past its end yields the stale entry
RECURSIVE ClearLoop(_, _, _, _, _)
ClearLoop(k, end, bps, stale, loads) ==
    IF k > end THEN bps
    ELSE LET bp == IF k <= Len(bps.cache) THEN bps.cache[k] ELSE stale
         IN  ClearLoop(k + 1, end,
                       SetBreakpoint(bps, bp.path, bp.line, FALSE, loads),
                       stale, loads)

\* GodotPeekDebuggerPlugin::clear_all_breakpoints
ClearAllBreakpoints(bps, stale, loads) ==
    [ClearLoop(1, Len(bps.cache), bps, stale, loads) EXCEPT !.cache = <<>>]

\* handle_set_breakpoint
HandleSetBreakpoint(id, params, bps, loads) ==
    IF ~params.complete
      THEN [reply |-> MakeError(id, InvalidParams), bps |-> bps, wrote |-> FALSE]
      ELSE [reply |-> MakeResult(id),
            bps |-> SetBreakpoint(bps, params.path, params.line, params.enabled, loads),
            wrote |-> TRUE]

\* MessageHandler::handle: the reply, the handler that ran and the breakpoints
\* afterwards
HandleMessage(req, bps, stale, loads) ==
    IF IsDiscarded(req)
      THEN [reply |-> [id |-> NullId, error |-> TRUE, code |-> ParseError],
            handler |-> "none", bps |-> bps, wrote |-> FALSE]
      ELSE LET id == ExtractId(req.id) IN
           IF req.method \in {"absent", "nonstring"}
             THEN [reply |-> MakeError(id, InvalidRequest), handler |-> "none",
                   bps |-> bps, wrote |-> FALSE]
             ELSE IF req.method = "ping"
               THEN [reply |-> MakeResult(id), handler |-> "ping", bps |-> bps,
                     wrote |-> FALSE]
               ELSE IF req.method = "set_breakpoint"
                 THEN LET r == HandleSetBreakpoint(id, req.params, bps, loads)
                      IN  [reply |-> r.reply, handler |-> "set_breakpoint",
                           bps |-> r.bps, wrote |-> r.wrote]
                 ELSE IF req.method = "clear_breakpoints"
                   THEN [reply |-> MakeResult(id), handler |-> "clear_breakpoints",
                         bps |-> ClearAllBreakpoints(bps, stale, loads),
                         wrote |-> FALSE]
                   ELSE [reply |-> MakeError(id, MethodNotFound), handler |-> "none",
                         bps |-> bps, wrote |-> FALSE]

\* poll hands one request line to the router
Route(req, stale, loads) ==
    LET r == HandleMessage(req, [cache |-> cached_breakpoints, edit |-> code_edit],
                           stale, loads)
    IN  /\ cached_breakpoints' = r.bps.cache
        /\ code_edit' = r.bps.edit
        /\ routed' = [any |-> TRUE, req |-> req, reply |-> r.reply, handler |-> r.handler,
                      held |-> Len(cached_breakpoints),
                      rewrite |-> \E n \in 1..Len(cached_breakpoints) :
                                     /\ cached_breakpoints[n].path = req.params.path
                                     /\ cached_breakpoints[n].line = req.params.line,
                      changed |-> r.bps.cache # cached_breakpoints
                                     \/ r.bps.edit # code_edit]
        /\ lastWrite' =
             IF r.handler = "clear_breakpoints"
               THEN [p \in ScriptPaths \X BpLines |-> "none"]
               ELSE IF r.wrote
                 THEN [lastWrite EXCEPT ![<<req.params.path, req.params.line>>] =
                          IF req.params.enabled THEN "on" ELSE "off"]
                 ELSE lastWrite
        /\ UNCHANGED otherThanRouter

\* the user toggles a breakpoint in the script editor's gutter
UserToggles(path, line) ==
    /\ code_edit' = IF <<path, line>> \in code_edit
                      THEN code_edit \ {<<path, line>>}
                      ELSE code_edit \cup {<<path, line>>}
    /\ UNCHANGED <<cached_breakpoints, lastWrite, routed>>
    /\ UNCHANGED otherThanRouter

InitRouter ==
    /\ IdleRouter
    /\ impl = "extension"
    /\ IdleScene
    /\ IdleInspect
    /\ IdleOutput
    /\ IdleOverrides
    /\ IdleStartup
    /\ IdleCapture
    /\ IdleFinder
    /\ IdleServer
    /\ InitClient

\* the script loads and the stale slot are looked at by the breakpoint
\* handlers only
NextRouter ==
    \/ \E req \in JsonRequests :
          /\ ~req.json \/ req.method \notin {"set_breakpoint", "clear_breakpoints"}
          /\ Route(req, [path |-> "", line |-> 1], TRUE)
    \/ \E req \in JsonRequests, loads \in BOOLEAN :
          /\ req.json /\ req.method = "set_breakpoint"
          /\ Route(req, [path |-> "", line |-> 1], loads)
    \/ \E req \in JsonRequests, stale \in StaleEntries, loads \in BOOLEAN :
          /\ req.json /\ req.method = "clear_breakpoints"
          /\ Route(req, stale, loads)
    \/ \E path \in ScriptPaths, line \in BpLines : UserToggles(path, line)

SpecRouter == InitRouter /\ [][NextRouter]_vars

\* C23: a line that is not JSON is answered with -32700, a request without a
\* string method with -32600 and a request for an unknown method with -32601;
\* in each of these cases the reply is an error, no handler ran and the
\* breakpoints are as they were.
C23_RouterErrorCodes ==
    routed.any =>
        LET req == routed.req
            code == IF ~req.json THEN ParseError
                    ELSE IF req.method \in {"absent", "nonstring"} THEN InvalidRequest
                    ELSE IF req.method \notin RoutedMethods THEN MethodNotFound
                    ELSE 0
        IN  /\ code # 0 => /\ routed.reply.error
                           /\ routed.reply.code = code
                           /\ routed.handler = "none"
                           /\ ~routed.changed
            /\ code = 0 => routed.handler = req.method

\* a request for an unknown method was answered while breakpoints are set
C23_Witness ==
    /\ routed.any
    /\ routed.req.json
    /\ routed.req.method = "bogus"
    /\ routed.reply.code = MethodNotFound
    /\ cached_breakpoints # <<>>

\* the id a reply must carry for a request's id: the same value, an integral
\* floating-point number as the integer
SameId(idv) ==
    IF idv.kind = "float" /\ idv.v10 % 10 = 0
      THEN [kind |-> "int", v10 |-> idv.v10]
      ELSE idv

\* C24: every reply, error replies included, carries the id of its request,
\* an integral floating-point id as the integer.
C24_ReplyCarriesRequestId ==
    routed.any => routed.reply.id = SameId(routed.req.id)

\* the breakpoint pairs in the cache
CachedPairs == {<<cached_breakpoints[n].path, cached_breakpoints[n].line>> :
                   n \in 1..Len(cached_breakpoints)}

\* C25: the cache holds at most one entry per (path, line); a pair is in it
\* exactly when the last set_breakpoint for that pair since the last
\* clear_breakpoints enabled it; and it is empty when clear_breakpoints has
\* just been handled.
C25_BreakpointCacheCanonical ==
    /\ Cardinality(CachedPairs) = Len(cached_breakpoints)
    /\ \A p \in ScriptPaths \X BpLines : p \in CachedPairs <=> lastWrite[p] = "on"
    /\ (routed.any /\ routed.handler = "clear_breakpoints")
          => cached_breakpoints = <<>>

\* clear_breakpoints was handled with two or more breakpoints cached
C25_Witness ==
    /\ routed.any
    /\ routed.handler = "clear_breakpoints"
    /\ routed.held >= 2
    /\ cached_breakpoints = <<>>

(***************************************************************************)
(* Autoload overrides: writeOverrides (client.go), the run tools and the   *)
(* Game Helper's _apply_overrides (peek_runtime_helper.gd)                 *)
(***************************************************************************)

\* an Overrides value: nil, or a map from autoload names to maps from
\* property names to values, kept as the set of its keys and of its
\* (autoload, property, value) entries
OverrideEntries == Autoloads \X OverrideProps \X OverrideValues

OverridesValues ==
    {ov \in [nil : BOOLEAN, names : SUBSET Autoloads, props : SUBSET OverrideEntries] :
        /\ ov.nil => ov.names = {}
        /\ \A e \in ov.props : e[1] \in ov.names
        /\ \A e, f \in ov.props : (e[1] = f[1] /\ e[2] = f[2]) => e = f}

\* len(overrides)
OverridesLen(ov) == Cardinality(ov.names)

\* key order of json.Marshal (sorted) and the text of a value
AutoloadOrder == <<"Audio", "Game">>
ValueText == [v \in OverrideValues |-> IF v = 1 THEN "1" ELSE "true"]

\* the elements of order that are in keys, in that order
RECURSIVE Ordered(_, _)
Ordered(order, keys) ==
    IF order = <<>> THEN <<>>
    ELSE IF Head(order) \in keys
      THEN <<Head(order)>> \o Ordered(Tail(order), keys)
      ELSE Ordered(Tail(order), keys)

\* an encoder that writes the first autoload only
MarshalFirstOnly(ov) ==
    LET names == Ordered(AutoloadOrder, ov.names)
    IN  IF names = <<>> THEN <<>>
        ELSE <<[name |-> names[1],
                members |-> {<<e[2], ValueText[e[3]]>> : e \in {f \in ov.props : f[1] = names[1]}}]>>

\* json.Marshal(overrides): one object member per autoload, keys sorted, each
\* holding the members of its property map as text
MarshalOverrides(ov) ==
    LET names == Ordered(AutoloadOrder, ov.names)
    IN  [n \in 1..Len(names) |->
            [name |-> names[n],
             members |-> {<<e[2], ValueText[e[3]]>> : e \in {f \in ov.props : f[1] = names[n]}}]]

\* json.Unmarshal / JSON.parse of the file's content
ParseOverrides(data) ==
    [nil |-> FALSE,
     names |-> {data[n].name : n \in 1..Len(data)},
     props |-> UNION {{<<data[n].name, m[1], CHOOSE v \in OverrideValues : ValueText[v] = m[2]>> :
                          m \in data[n].members} : n \in 1..Len(data)}]

\* writeOverrides: the file afterwards
WriteOverrides(file, ov) ==
    IF OverridesLen(ov) = 0
      THEN NoOverridesFile
      ELSE [exists |-> TRUE, data |-> MarshalOverrides(ov)]

\* what a launch was given: nil and the empty map are both "no overrides"
Supplied(ov) == [nil |-> FALSE, names |-> ov.names, props |-> ov.props]

\* Client.RunMainScene / RunScene / RunCurrentScene, first half: the
\* overrides file is written before the command is sent
ToolWriteOverrides(ov) ==
    /\ ovTool.pc = "idle"
    /\ ovFile' = WriteOverrides(ovFile, ov)
    /\ ovTool' = [pc |-> "written", ov |-> ov]
    /\ UNCHANGED game
    /\ UNCHANGED otherThanOverrides

\* second half: sendRequest; on success the editor plays the scene, a failed
\* request (not connected, error reply, timeout) starts nothing
ToolSendRun(ok) ==
    /\ ovTool.pc = "written"
    /\ ovTool' = [ovTool EXCEPT !.pc = "idle"]
    /\ game' = IF ok
                 THEN [running |-> TRUE, helper |-> FALSE,
                       supplied |-> Supplied(ovTool.ov), applied |-> {}]
                 ELSE game
    /\ UNCHANGED ovFile
    /\ UNCHANGED otherThanOverrides

\* the user starts a scene with the editor's play button
UserPlaysGame ==
    /\ game' = [running |-> TRUE, helper |-> FALSE,
                supplied |-> NoOverrides, applied |-> {}]
    /\ UNCHANGED <<ovFile, ovTool>>
    /\ UNCHANGED otherThanOverrides

\* the game ends, before or after its helper ran
GameEnds ==
    /\ game.running
    /\ game' = [game EXCEPT !.running = FALSE]
    /\ UNCHANGED <<ovFile, ovTool>>
    /\ UNCHANGED otherThanOverrides

\* peek_runtime_helper.gd _ready / _apply_overrides: read the file, delete
\* it, parse it and set the properties; applied is the set of (autoload,
\* property, value) assignments made
ApplyOverrides ==
    /\ game.running
    /\ ~game.helper
    /\ IF ~ovFile.exists
         THEN /\ game' = [game EXCEPT !.helper = TRUE]
              /\ UNCHANGED ovFile
         ELSE /\ ovFile' = NoOverridesFile
              /\ game' = [game EXCEPT !.helper = TRUE,
                                      !.applied = ParseOverrides(ovFile.data).props]
    /\ UNCHANGED ovTool
    /\ UNCHANGED otherThanOverrides

InitOverrides ==
    /\ IdleOverrides
    /\ impl = "extension"
    /\ IdleScene
    /\ IdleInspect
    /\ IdleOutput
    /\ IdleRouter
    /\ IdleStartup
    /\ IdleCapture
    /\ IdleFinder
    /\ IdleServer
    /\ InitClient

NextOverrides ==
    \/ \E ov \in OverridesValues : ToolWriteOverrides(ov)
    \/ \E ok \in BOOLEAN : ToolSendRun(ok)
    \/ UserPlaysGame
    \/ GameEnds
    \/ ApplyOverrides

SpecOverrides == InitOverrides /\ [][NextOverrides]_vars

\* C26: the property values a game has applied at its startup are the ones
\* supplied to the launch that started it; a launch without overrides (and
\* one the user started) applies none.
C26_OverridesAppliedToOwnLaunchOnly ==
    game.applied # {} => game.applied = game.supplied.props

RECURSIVE SeqsUpTo(_, _)
SeqsUpTo(S, n) ==
    IF n = 0 THEN {<<>>}
    ELSE LET shorter == SeqsUpTo(S, n - 1)
         IN  shorter \cup {Append(q, x) : q \in {r \in shorter : Len(r) = n - 1}, x \in S}

DirNames == SeqsUpTo(Runes, MaxName)

\* the UTF-8 bytes of a code point below U+0800
Utf8(r) == IF r < 128 THEN <<r>> ELSE <<192 + (r \div 64), 128 + (r % 64)>>

RECURSIVE Utf8String(_)
Utf8String(name) ==
    IF name = <<>> THEN <<>> ELSE Utf8(Head(name)) \o Utf8String(Tail(name))

\* unicode.IsLetter(r) || unicode.IsDigit(r), for code points below U+0100
IsLetterOrDigit(r) ==
    \/ r \in 48..57
    \/ r \in 65..90
    \/ r \in 97..122
    \/ r \in {170, 181, 186}
    \/ r \in (192..214) \cup (216..246) \cup (248..255)

\* unicode.ToLower(r), for code points below U+0100
ToLowerRune(r) ==
    IF r \in (65..90) \cup (192..214) \cup (216..222) THEN r + 32 ELSE r

\* std::isalnum(static_cast<unsigned char>(c)) in the "C" locale
IsAlnumByte(b) ==
    \/ b \in 48..57
    \/ b \in 65..90
    \/ b \in 97..122

\* std::tolower(static_cast<unsigned char>(c))
ToLowerByte(b) == IF b \in 65..90 THEN b + 32 ELSE b

\* strings.TrimRight(s, "-") / while (sanitized.back() == '-') pop_back()
RECURSIVE TrimDashes(_)
TrimDashes(q) ==
    IF q # <<>> /\ q[Len(q)] = 45 THEN TrimDashes(SubSeq(q, 1, Len(q) - 1)) ELSE q

\* the loop of sanitizeProjectName over the runes of the name: a letter or
\* digit is written in lower case, any other rune becomes one dash unless
\* the builder is empty or already ends in a dash
RECURSIVE SanitizeRunes(_, _)
SanitizeRunes(name, b) ==
    IF name = <<>> THEN b
    ELSE LET r == Head(name)
             next == IF IsLetterOrDigit(r) THEN Append(b, ToLowerRune(r))
                     ELSE IF b # <<>> /\ b[Len(b)] # 45 THEN Append(b, 45)
                     ELSE b
         IN  SanitizeRunes(Tail(name), next)

\* sanitizeProjectName (main.go): the result as code points
SanitizeProjectName(name) == TrimDashes(SanitizeRunes(name, <<>>))

\* the loop of get_project_socket_path over the chars of dirname
RECURSIVE SanitizeChars(_, _)
SanitizeChars(dirname, sanitized) ==
    IF dirname = <<>> THEN sanitized
    ELSE LET c == Head(dirname)
             next == IF IsAlnumByte(c) THEN Append(sanitized, ToLowerByte(c))
                     ELSE IF sanitized # <<>> /\ sanitized[Len(sanitized)] # 45
                       THEN Append(sanitized, 45)
                     ELSE sanitized
         IN  SanitizeChars(Tail(dirname), next)

DefaultSocketPath == [set |-> TRUE, env |-> FALSE, default |-> TRUE, name |-> <<>>]
NamedSocketPath(bytes) == [set |-> TRUE, env |-> FALSE, default |-> FALSE, name |-> bytes]
EnvSocketPath == [set |-> TRUE, env |-> TRUE, default |-> FALSE, name |-> <<>>]

\* run, lines 57-69: GODOT_PEEK_SOCKET if set, else the path derived from
\* filepath.Base(cwd), else the default; the path as bytes
AdapterSocketPath(name, envSet) ==
    IF envSet THEN EnvSocketPath
    ELSE LET sanitized == IF name = <<>> THEN <<>> ELSE SanitizeProjectName(name)
         IN  IF sanitized # <<>>
               THEN NamedSocketPath(Utf8String(sanitized))
               ELSE DefaultSocketPath

\* get_project_socket_path: the last component of the project path, its
\* bytes sanitized, or the default path when nothing is left
GetProjectSocketPath(name) ==
    LET dirname == Utf8String(name)
        sanitized == TrimDashes(SanitizeChars(dirname, <<>>))
    IN  IF dirname = <<>> \/ sanitized = <<>>
          THEN DefaultSocketPath
          ELSE NamedSocketPath(sanitized)

\* GodotPeekPlugin::_enter_tree derives the path the server listens on
ServerDerives ==
    /\ ~cppPath.set
    /\ cppPath' = GetProjectSocketPath(dirName)
    /\ UNCHANGED <<dirName, envSocket, goPath, cr>>
    /\ UNCHANGED otherThanStartup

\* run: the Adapter resolves its socket path and calls connectWithRetry
AdapterDerives ==
    /\ ~goPath.set
    /\ goPath' = AdapterSocketPath(dirName, envSocket)
    /\ cr' = [cr EXCEPT !.pc = "loop"]
    /\ UNCHANGED <<dirName, envSocket, cppPath>>
    /\ UNCHANGED otherThanStartup

\* a retry loop that waits one second before every retry
RetryDelayConstant(i) == 1

\* time.Duration(i) * time.Second, in seconds
RetryDelay(i) == i

\* connectWithRetry, the head of the loop: leave it after maxRetries
\* attempts with the last error; wait before every attempt but the first
RetryLoop ==
    /\ cr.pc = "loop"
    /\ IF cr.i >= MaxRetries
         THEN cr' = [cr EXCEPT !.pc = "done", !.result = "lastErr"]
         ELSE IF cr.i > 0
           THEN cr' = [cr EXCEPT !.pc = "wait", !.timer = RetryDelay(cr.i), !.waited = 0]
           ELSE cr' = [cr EXCEPT !.pc = "connect", !.delays = Append(@, 0)]
    /\ UNCHANGED <<dirName, envSocket, goPath, cppPath>>
    /\ UNCHANGED otherThanStartup

\* a second passes while the call waits in its select
RetryTick ==
    /\ cr.pc = "wait"
    /\ cr.waited < cr.timer
    /\ cr' = [cr EXCEPT !.waited = @ + 1]
    /\ UNCHANGED <<dirName, envSocket, goPath, cppPath>>
    /\ UNCHANGED otherThanStartup

\* case <-time.After(time.Duration(i) * time.Second)
RetryTimer ==
    /\ cr.pc = "wait"
    /\ cr.waited = cr.timer
    /\ cr' = [cr EXCEPT !.pc = "connect", !.delays = Append(@, cr.waited)]
    /\ UNCHANGED <<dirName, envSocket, goPath, cppPath>>
    /\ UNCHANGED otherThanStartup

\* case <-ctx.Done(): return ctx.Err()
RetryCtxDone ==
    /\ cr.pc = "wait"
    /\ cr.cancelled
    /\ cr' = [cr EXCEPT !.pc = "done", !.result = "ctxErr"]
    /\ UNCHANGED <<dirName, envSocket, goPath, cppPath>>
    /\ UNCHANGED otherThanStartup

\* client.Connect(ctx): net.Dial succeeds or fails; the context is not used
RetryConnect(ok) ==
    /\ cr.pc = "connect"
    /\ cr' = IF ok
               THEN [cr EXCEPT !.pc = "done", !.result = "ok",
                               !.outcomes = Append(@, "ok")]
               ELSE [cr EXCEPT !.pc = "loop", !.i = @ + 1,
                               !.outcomes = Append(@, "err")]
    /\ UNCHANGED <<dirName, envSocket, goPath, cppPath>>
    /\ UNCHANGED otherThanStartup

\* SIGINT / SIGTERM cancels the context of run
SignalCancels ==
    /\ ~cr.cancelled
    /\ cr.pc # "done"
    /\ cr' = [cr EXCEPT !.cancelled = TRUE, !.cancelledIn = cr.pc]
    /\ UNCHANGED <<dirName, envSocket, goPath, cppPath>>
    /\ UNCHANGED otherThanStartup

InitStartup ==
    /\ dirName \in DirNames
    /\ envSocket \in BOOLEAN
    /\ goPath = NoSocketPath
    /\ cppPath = NoSocketPath
    /\ cr = IdleRetry
    /\ impl = "extension"
    /\ IdleScene
    /\ IdleInspect
    /\ IdleOutput
    /\ IdleRouter
    /\ IdleOverrides
    /\ IdleCapture
    /\ IdleFinder
    /\ IdleServer
    /\ InitClient

NextStartup ==
    \/ ServerDerives
    \/ AdapterDerives
    \/ RetryLoop
    \/ RetryTick
    \/ RetryTimer
    \/ RetryCtxDone
    \/ \E ok \in BOOLEAN : RetryConnect(ok)
    \/ SignalCancels

SpecStartup == InitStartup /\ [][NextStartup]_vars

\* C28: when neither side is given an explicit path, the Adapter and the
\* Editor Server derive the same socket path from the same directory name.
C28_PeersDeriveSamePath ==
    (goPath.set /\ cppPath.set /\ ~envSocket) => goPath = cppPath

C31_StopReplyStatesWasPlaying ==
    stopReply.any =>
        /\ stopReply.has_was_playing
        /\ stopReply.was_playing = stopReply.before

\* C32: when an armed auto-stop timer runs out on a frame tick while the
\* scene of its launch is still playing, that scene no longer plays after the
\* tick and the timer is cleared; a timer that stops a scene was armed before
\* the tick and is not armed after it, so one arming stops at most once.
C32_AutoStopFiresOnce ==
    [][/\ (/\ impl = "extension"
           /\ now' # now
           /\ auto_stop_active
           /\ auto_stop_timeout <= FrameMs
           /\ is_playing
           /\ playOrigin = armedFor)
          => /\ autoStopped'.timer = armedFor
             /\ autoStopped'.scene = armedFor
             /\ ~(is_playing' /\ playOrigin' = armedFor)
       /\ (impl = "extension" /\ now' # now /\ autoStopped'.timer # -1)
          => /\ auto_stop_active
             /\ armedFor = autoStopped'.timer
             /\ auto_stop_active' => armedFor' > armedFor
       /\ \A t \in timers :
            (/\ impl = "addon"
             /\ now' # now
             /\ t.remaining <= FrameMs
             /\ is_playing
             /\ playOrigin = t.launch)
            => /\ ~(is_playing' /\ playOrigin' = t.launch)
               /\ t \notin timers'
               /\ \A u \in timers' : u.launch # t.launch
       /\ (impl = "addon" /\ now' # now /\ autoStopped'.timer # -1)
          => /\ \E t \in timers : t.launch = autoStopped'.timer
             /\ \A u \in timers' : u.launch # autoStopped'.timer]_vars

\* the timer armed for a launch has just stopped that launch's scene
C32_Witness ==
    /\ autoStopped.timer \in Launches
    /\ autoStopped.scene = autoStopped.timer
    /\ ~is_playing
    /\ impl = "extension" => ~auto_stop_active

(***************************************************************************)
(* A burst: as many adapters as the listen backlog holds connect and send  *)
(* one request each between the server's frames                            *)
(***************************************************************************)

Burst == 1..ListenBacklog

\* a request of ReadMax bytes: with its newline it is one byte longer than
\* what one read() returns
LongRequest == [k \in 1..ReadMax |-> 101]

\* the request an adapter of the burst writes: a ping, or for the first
\* adapter a long request
BurstLines(c) == {<<100 + c>>} \cup (IF c = 1 THEN {LongRequest} ELSE {})

\* sendRequest: one conn.Write of the request and its newline, once per adapter
AdapterWrites(c, line) ==
    /\ connPhase[c] \in {"backlog", "accepted"}
    /\ peerOpen[c]
    /\ sent[c] = <<>>
    /\ toServer' = [toServer EXCEPT ![c] = @ \o line \o <<NL>>]
    /\ sent' = [sent EXCEPT ![c] = @ \o line \o <<NL>>]
    /\ UNCHANGED <<adapterVars, editorVars, lifecycleVars, clients, connPhase, peerOpen,
                   backlog, toClient, handed, lastRead>>

\* the adapters are alike: they connect in the order of their numbers
AdapterConnects(c) ==
    /\ \A d \in Burst : d < c => connPhase[d] # "none"
    /\ ClientConnect(c)

InitBurst ==
    /\ server_fd = [i \in Instances |-> IF i = "ed1" THEN 1 ELSE NoFd]
    /\ socket_path = [i \in Instances |-> IF i = "ed1" THEN "/tmp/a.sock" ELSE NoPath]
    /\ owns_socket = [i \in Instances |-> i = "ed1"]
    /\ spc = [i \in Instances |-> "idle"]
    /\ startOutcome = [i \in Instances |-> IF i = "ed1" THEN "ok" ELSE "none"]
    /\ fs = [p \in Paths |-> IF p = "/tmp/a.sock" THEN SockFile(1) ELSE NoFile]
    /\ sockState = [s \in Socks |-> IF s = 1 THEN "listening" ELSE "unused"]
    /\ sockAddr = [s \in Socks |-> IF s = 1 THEN "/tmp/a.sock" ELSE NoPath]
    /\ sockCreator = [s \in Socks |-> IF s = 1 THEN "ed1" ELSE "nobody"]
    /\ nextSock = 2
    /\ clients = [i \in Instances |-> <<>>]
    /\ connPhase = [c \in Burst |-> "none"]
    /\ peerOpen = [c \in Burst |-> FALSE]
    /\ backlog = <<>>
    /\ toServer = [c \in Burst |-> <<>>]
    /\ toClient = [c \in Burst |-> <<>>]
    /\ sent = [c \in Burst |-> <<>>]
    /\ handed = [c \in Burst |-> <<>>]
    /\ lastRead = [c \in Burst |-> 0]
    /\ InitClient
    /\ IdleEditor

NextBurst ==
    \/ \E i \in Instances : Poll(i)
    \/ \E c \in Burst : AdapterConnects(c)
    \/ \E c \in Burst : \E line \in BurstLines(c) : AdapterWrites(c, line)

SpecBurst == InitBurst /\ [][NextBurst]_vars

\* the bytes of connection c that lie within what one more read() returns
WithinNextRead(c) ==
    SubSeq(sent[c], 1, Len(Consumed(c)) + Min(Len(toServer[c]), ReadMax))

\* a poll has left connection c, open and waiting or connected before it,
\* accepted and with every complete request among the bytes q answered
AnsweredAfterPoll(c, q) ==
    /\ connPhase'[c] = "accepted"
    /\ handed'[c] = NonEmptyLines(q)
    /\ toClient'[c] = ReplyLines(NonEmptyLines(q))

C34_NoReconnectAfterReadLoopEnds ==
    [][readLoop = "exited" =>
          /\ readLoop' = "exited"
          /\ ~connected'
          /\ \A k \in Calls :
                (pc[k] = "idle" /\ pc'[k] # "idle")
                   => /\ pc'[k] = "done"
                      /\ result'[k] = Outcome("not_connected", 0)
                      /\ pending' = pending
                      /\ issued' = issued
                      /\ wire' = wire]_vars

\* the server went away after one call was answered; the read loop has
\* ended on a connection the Adapter never closed, and the other call was
\* refused as not connected
C34_Witness ==
    /\ readLoop = "exited"
    /\ peerEOF
    /\ connOpen
    /\ ~connected
    /\ Len(issued) = 1
    /\ \E j, k \in Calls :
          /\ pc[j] = "done"
          /\ result[j].kind = "reply"
          /\ pc[k] = "done"
          /\ result[k] = Outcome("not_connected", 0)

(***************************************************************************)
(* Screenshots: get_screenshot of the editor and of the running game       *)
(* (MessageHandler::handle_get_screenshot, capture_editor, capture_game)   *)
(***************************************************************************)

\* milliseconds the game's screenshot listener may need to answer
AnswerMs == {k * CaptureDelayMs : k \in 0..MaxAnswer}

\* a reply and the time the frame loop spent inside the handler
ShotReply(target, kind, blockedMs) ==
    [any |-> TRUE, target |-> target, kind |-> kind, blockedMs |-> blockedMs]

\* capture_game, lines 1132-1156: up to 20 times, delay_msec(50) and then look
\* for the listener's packet; elapsed is the time slept so far
RECURSIVE CaptureLoop(_, _)
CaptureLoop(attempt, answersAfter) ==
    IF attempt >= CaptureAttempts
      THEN ShotReply("game", "timeout", attempt * CaptureDelayMs)
      ELSE LET elapsed == (attempt + 1) * CaptureDelayMs
           IN  IF answersAfter # -1 /\ answersAfter <= elapsed
                 THEN ShotReply("game", "result", elapsed)
                 ELSE CaptureLoop(attempt + 1, answersAfter)

\* capture_game: an error when no game runs, else the UDP request and the
\* wait for the answer
CaptureGame(g) ==
    IF ~g.running
      THEN ShotReply("game", "not_running", 0)
      ELSE CaptureLoop(0, g.answersAfter)

\* capture_editor: the viewports' images saved at once, or an error when
\* neither viewport is large enough
CaptureEditor(viewports) ==
    IF viewports THEN ShotReply("editor", "result", 0)
    ELSE ShotReply("editor", "no_viewports", 0)

\* handle_get_screenshot: route by target
HandleGetScreenshot(target, viewports) ==
    /\ shotReply' = IF target = "game" THEN CaptureGame(shotGame)
                    ELSE CaptureEditor(viewports)
    /\ UNCHANGED shotGame
    /\ UNCHANGED otherThanCapture

\* a game starts; its screenshot listener, if the project has one, answers
\* after a ms
ShotGameStarts(a) ==
    /\ ~shotGame.running
    /\ shotGame' = [running |-> TRUE, answersAfter |-> a]
    /\ UNCHANGED shotReply
    /\ UNCHANGED otherThanCapture

ShotGameStops ==
    /\ shotGame.running
    /\ shotGame' = NoShotGame
    /\ UNCHANGED shotReply
    /\ UNCHANGED otherThanCapture

InitCapture ==
    /\ shotGame = NoShotGame
    /\ shotReply = NoShotReply
    /\ impl = "extension"
    /\ IdleScene
    /\ IdleInspect
    /\ IdleOutput
    /\ IdleRouter
    /\ IdleOverrides
    /\ IdleStartup
    /\ IdleFinder
    /\ IdleServer
    /\ InitClient

NextCapture ==
    \/ \E target \in {"editor", "game"} : \E viewports \in BOOLEAN :
          HandleGetScreenshot(target, viewports)
    \/ \E a \in AnswerMs \cup {-1} : ShotGameStarts(a)
    \/ ShotGameStops

SpecCapture == InitCapture /\ [][NextCapture]_vars

\* C35: no handler keeps the frame loop waiting: every reply is produced
\* without the handler having slept or polled inside the tick.
C35_HandlersNeverBlock ==
    shotReply.any => shotReply.blockedMs = 0

\* C36: a set_breakpoint or clear_breakpoints call that finds the cache and
\* the code editor holding the same breakpoints leaves them holding the same
\* breakpoints.
C36_BreakpointsKeptInSync ==
    [][(/\ code_edit = CachedPairs
        /\ routed'.any
        /\ routed'.handler \in {"set_breakpoint", "clear_breakpoints"}
        /\ cached_breakpoints' # cached_breakpoints)
          => code_edit' = {<<cached_breakpoints'[n].path, cached_breakpoints'[n].line>> :
                              n \in 1..Len(cached_breakpoints')}]_vars

(***************************************************************************)
(* Cached widget references (CachedRef, EditorControlFinder)               *)
(***************************************************************************)

\* ObjectDB::get_instance(id): the live object with that instance id, if any
IsAlive(db, id) == \E o \in db : o.id = id

\* the address of the live object with instance id id
AddrOf(db, id) == (CHOOSE o \in db : o.id = id).addr

\* a reference that names a live object at the address it holds
PointsAtLive(db, ref) == \E o \in db : o.id = ref.id /\ o.addr = ref.ptr

\* CachedRef::get without the ObjectDB check
CachedRefGetUnchecked(ref, db) == [ret |-> ref, ref |-> ref]

\* CachedRef::get, lines 1235-1246: nullptr when empty; a freed object clears
\* the reference and gives nullptr; else the pointer
CachedRefGet(ref, db) ==
    IF ref.ptr = "nullptr" THEN [ret |-> NullRef, ref |-> ref]
    ELSE IF ~IsAlive(db, ref.id) THEN [ret |-> NullRef, ref |-> NullRef]
    ELSE [ret |-> ref, ref |-> ref]

\* CachedRef::set, lines 1249-1252
CachedRefSet(ptr, id) == IF ptr = "nullptr" THEN NullRef ELSE [ptr |-> ptr, id |-> id]

\* what a lookup found cached, what it returned, and whether it searched the UI
Lookup(had, ret, searched) == <<[had |-> had, ret |-> ret, searched |-> searched]>>

\* get_output_panel: the cached control if get() gives one; else, with an
\* editor and a base control, the first node of the UI whose path matches is
\* stored, and get() is asked again
get_output_panel(hasBase) ==
    LET first == CachedRefGet(output_panel, objectDB)
        found == IF inTree # 0
                   THEN CachedRefSet(AddrOf(objectDB, inTree), inTree)
                   ELSE first.ref
        second == CachedRefGet(found, objectDB)
    IN  /\ IF first.ret.ptr # "nullptr"
             THEN /\ output_panel' = first.ref
                  /\ lookup' = Lookup(output_panel, first.ret, FALSE)
           ELSE IF ~hasBase
             THEN /\ output_panel' = first.ref
                  /\ lookup' = Lookup(output_panel, NullRef, FALSE)
           ELSE /\ output_panel' = second.ref
                /\ lookup' = Lookup(output_panel, second.ret, TRUE)
        /\ UNCHANGED <<objectDB, nextInstanceId, inTree>>
        /\ UNCHANGED otherThanFinder

\* invalidate_cache, lines 320-329
invalidate_cache ==
    /\ output_panel' = NullRef
    /\ UNCHANGED <<objectDB, nextInstanceId, inTree, lookup>>
    /\ UNCHANGED otherThanFinder

\* the editor builds an object at a free address: the Output panel, which
\* replaces in the UI the panel shown before (that one stays alive until it
\* is freed), or some other object
EditorBuilds(addr, isPanel) ==
    /\ nextInstanceId <= MaxObjects
    /\ \A o \in objectDB : o.addr # addr
    /\ objectDB' = objectDB \cup {[id |-> nextInstanceId, addr |-> addr]}
    /\ inTree' = IF isPanel THEN nextInstanceId ELSE inTree
    /\ nextInstanceId' = nextInstanceId + 1
    /\ UNCHANGED <<output_panel, lookup>>
    /\ UNCHANGED otherThanFinder

\* the editor frees an object (a panel rebuilt when a game starts or stops);
\* its address may be given to a later object
EditorFrees(o) ==
    /\ o \in objectDB
    /\ objectDB' = objectDB \ {o}
    /\ inTree' = IF inTree = o.id THEN 0 ELSE inTree
    /\ UNCHANGED <<nextInstanceId, output_panel, lookup>>
    /\ UNCHANGED otherThanFinder

InitFinder ==
    /\ IdleFinder
    /\ impl = "extension"
    /\ IdleScene
    /\ IdleInspect
    /\ IdleOutput
    /\ IdleRouter
    /\ IdleOverrides
    /\ IdleStartup
    /\ IdleCapture
    /\ IdleServer
    /\ InitClient

NextFinder ==
    \/ \E hasBase \in BOOLEAN : get_output_panel(hasBase)
    \/ invalidate_cache
    \/ \E addr \in Addrs : \E isPanel \in BOOLEAN : EditorBuilds(addr, isPanel)
    \/ \E o \in objectDB : EditorFrees(o)

SpecFinder == InitFinder /\ [][NextFinder]_vars

\* C37: a lookup never returns a reference whose object has been freed: what
\* it returns is nullptr or a live object, a stale entry it found is cleared,
\* and it is answered from a fresh search.
C37_NoFreedWidgetReturned ==
    [][(lookup' # lookup /\ lookup' # <<>>) =>
         LET l == lookup'[1] IN
         /\ l.ret.ptr # "nullptr" => PointsAtLive(objectDB', l.ret)
         /\ (l.had.ptr # "nullptr" /\ ~IsAlive(objectDB, l.had.id))
              => /\ output_panel' # l.had
                 /\ l.ret # l.had
                 /\ (l.searched \/ l.ret = NullRef)]_vars

\* a lookup found a reference to a freed object whose address a new object
\* now has, and returned the panel the editor shows now
C37_Witness ==
    /\ lookup # <<>>
    /\ lookup[1].had.ptr # "nullptr"
    /\ ~IsAlive(objectDB, lookup[1].had.id)
    /\ \E o \in objectDB : o.addr = lookup[1].had.ptr
    /\ lookup[1].searched
    /\ lookup[1].ret.ptr # "nullptr"

\* C38: a reply frame is handed only to the call that sent the request with
\* the frame's id, and a call returns only the reply of its own id; the reply
\* of a call that has already returned is handed to nobody.
C38_ReplyOnlyToItsRequest ==
    [][/\ (readLoop = "scan" /\ readLoop' = "dispatch")
            => /\ Head(incoming).kind = "resp"
               /\ reqId[dispatch'.ch] = ToInt64(Head(incoming).id10)
               /\ dispatch'.id = reqId[dispatch'.ch]
               /\ pc[dispatch'.ch] \in {"write", "writing", "wait", "defer"}
       /\ \A k \in Calls :
             (chanBuf'[k] # chanBuf[k] /\ chanBuf'[k] # <<>>)
                => /\ dispatch.ch = k
                   /\ chanBuf'[k] = <<reqId[k]>>
       /\ \A k \in Calls :
             (result'[k] # result[k] /\ result'[k].kind = "reply")
                => /\ pc[k] = "wait"
                   /\ result'[k].id = reqId[k]
       /\ (/\ readLoop = "scan"
           /\ incoming # <<>>
           /\ incoming' = Tail(incoming)
           /\ Head(incoming).kind = "resp"
           /\ \E j \in Calls : /\ reqId[j] = ToInt64(Head(incoming).id10)
                               /\ pc[j] = "done")
            => /\ readLoop' = "scan"
               /\ UNCHANGED <<dispatch, chanBuf, pending, result>>]_vars

\* the reply of a call that timed out or was cancelled, and has returned, is
\* the next line the reader scans while a later call waits for its own reply
C38_Witness ==
    \E j, k \in Calls :
        /\ pc[j] = "done"
        /\ result[j].kind \in {"timeout", "cancelled"}
        /\ pc[k] = "wait"
        /\ reqId[k] > reqId[j]
        /\ readLoop = "scan"
        /\ connOpen
        /\ incoming # <<>>
        /\ Head(incoming) = [kind |-> "resp", id10 |-> 10 * reqId[j]]

(***************************************************************************)
(* The startup check of a launch with an auto-stop timeout                 *)
(***************************************************************************)

\* timeouts of the launches: none, shorter than the startup check's delay,
\* and equal to it (timeout_seconds = 1.5)
GraceTimeouts == Timeouts \cup {GraceMs}

NextGrace ==
    \/ PluginProcess
    \/ AddonProcess
    \/ \E t \in GraceTimeouts : GoRunScene(t)
    \/ GoSkipCheck
    \/ GoWake
    \/ GoDecide
    \/ \E t \in GraceTimeouts : RunRequest(t)
    \/ GameExit
    \/ GameCrash

SpecGrace == InitScene /\ [][NextGrace]_vars

\* C39: a launch whose scene ran without an error until its own auto-stop
\* timer ended it is not answered with error_detected.
C39_TimerEndIsNoCrash ==
    \A a \in 1..Len(runReplies) :
        runReplies[a].launch \in timerEnded => ~runReplies[a].error_detected

\* C40: whenever the reader is about to hand a reply to a waiter's channel the
\* send completes at once, whatever the waiter is doing, so the reader is back
\* at scanning the next line.
C40_ReaderNeverBlocksOnSend ==
    readLoop = "dispatch" =>
        /\ dispatch.ch \in Calls
        /\ SendCompletes(dispatch.ch)
        /\ ENABLED DispatchSend

\* the reader handed a reply to a call that had timed out or been cancelled,
\* nobody reads that channel, and the reply of a later call was delivered and
\* returned after it
C40_Witness ==
    \E j, k \in Calls :
        /\ pc[j] = "done"
        /\ result[j].kind \in {"timeout", "cancelled"}
        /\ chanBuf[j] = <<reqId[j]>>
        /\ deliveredLog = <<reqId[j], reqId[k]>>
        /\ pc[k] = "done"
        /\ result[k] = Outcome("reply", reqId[k])

====
